---- MODULE Spec2Model ----
(***************************************************************************)
(* The circuit facade of the dataflow JIT (crates/dataflow-jit/src/facade):*)
(* DbspCircuit, Demands and JsonSetHandle, together with the parts of the  *)
(* incremental runtime, the row bridge and the generated deserializers the *)
(* facade drives.                                                          *)
(***************************************************************************)
EXTENDS Integers, Sequences, FiniteSets, Bags, TLC

\* ------------------------------------------------------------------ bounds

\* Rows one run of the circuit may ingest, over all sources and all ticks: in
\* the runs of the whole interface, and in the runs of the data path alone.
MaxRows == 1
MaxTickRows == 2
\* JsonSetHandle values (the originals and their clones) alive at once.
MaxHandles == 2
\* update_program calls begun in one run, over all callers: in the runs that
\* change the code under a guard, and in the runs that set status and schema.
MaxCalls == 3
MaxStatusCalls == 2

\* The width in bits of the signed integer type of a weight handed to
\* weighted_push.
WeightBits == 3

\* ------------------------------------------------------------ the data model

\* NodeIds. 1 and 2 are the declared sources, 3 and 4 the declared sinks,
\* 5 is a node id the graph does not declare.
Sources == {1, 2}
Sinks == {3, 4}
Undeclared == {5}

Kinds == {"Set", "Map"}

\* Option<T>: None is <<>>, Some(c) is <<c>>.
None == <<>>
Some(c) == <<c>>

\* ir::Constant and ir::literal::NullableConstant
Const(ty, v) == [ty |-> ty, v |-> v]
NonNull(c) == [tag |-> "NonNull", opt |-> Some(c)]
Nullable(o) == [tag |-> "Nullable", opt |-> o]

\* The layout cache of the graph: layout 1 is the key layout (one nullable I32
\* column), layout 2 the value layout of maps (one non-nullable U32 column),
\* layout 3 a layout of four columns that no stream of the graph carries.
RowLayoutOf(id) ==
    IF id = 1 THEN << [ty |-> "I32", nullable |-> TRUE] >>
    ELSE IF id = 2 THEN << [ty |-> "U32", nullable |-> FALSE] >>
    ELSE << [ty |-> "Timestamp", nullable |-> FALSE], [ty |-> "I32", nullable |-> TRUE],
            [ty |-> "Bool", nullable |-> FALSE], [ty |-> "Date", nullable |-> TRUE] >>

\* StreamLayout::Set(key) and StreamLayout::Map(key, value); val is 0 for a set.
StreamLayoutOf(kind) ==
    IF kind = "Set" THEN [kind |-> "Set", key |-> 1, val |-> 0]
                    ELSE [kind |-> "Map", key |-> 1, val |-> 2]

\* The well-formed row literals of the two layouts.
KeyLits == { << Nullable(None) >>, << Nullable(Some(Const("I32", 1))) >> }
ValLits == { << NonNull(Const("U32", 1)) >>, << NonNull(Const("U32", 2)) >> }
Weights == {-1, 1}

\* chrono::NaiveDateTime: the whole milliseconds since the epoch, and what the
\* value has beyond them (less than one millisecond). A NaiveDate is its number
\* of days since the epoch.
DateTime(millis, submilli) == [millis |-> millis, submilli |-> submilli]

\* The well-formed row literals of layout 3.
RowLits ==
    { << NonNull(Const("Timestamp", t)), Nullable(o), NonNull(Const("Bool", b)), Nullable(d) >> :
        t \in { DateTime(0, 0), DateTime(1, 0), DateTime(1, 500) },
        o \in { None, Some(Const("I32", 1)), Some(Const("I32", -1)) },
        b \in BOOLEAN,
        d \in { None, Some(Const("Date", 0)), Some(Const("Date", 1)) } }

RowLayoutIds == {1, 2, 3}
LiteralsOf(id) == IF id = 1 THEN KeyLits ELSE IF id = 2 THEN ValLits ELSE RowLits

\* The entries a StreamCollection literal may hold.
SetEntries == { <<k, w>> : k \in KeyLits, w \in Weights }
MapEntries == { <<k, v, w>> : k \in KeyLits, v \in ValLits, w \in Weights }

SeqsUpTo(S, n) == UNION { [1..m -> S] : m \in 0..n }

StreamCollection(kind, rows) == [kind |-> kind, rows |-> rows]
NoCollection == [kind |-> "none", rows |-> <<>>]

\* StreamCollection::empty(layout)
EmptyCollection(layout) == StreamCollection(layout.kind, <<>>)

\* ------------------------------------------------------------- rows

\* The payload bytes of a column that was never written.
UninitPayload == 0

\* What a column stores for a constant: a Timestamp its milliseconds since the
\* epoch, a Date its days, every other type the value itself.
PayloadOf(ty, v) == IF ty = "Timestamp" THEN v.millis ELSE v

\* row::row_from_literal: the null bit first, the payload only when non-null.
row_from_literal(literal, layout) ==
    [c \in 1..Len(layout) |->
        IF layout[c].nullable /\ literal[c].opt = None
        THEN [null |-> TRUE, payload |-> UninitPayload]
        ELSE [null |-> FALSE, payload |-> PayloadOf(layout[c].ty, literal[c].opt[1].v)]]

\* (first: a read of every column through the I32 arm of the match)
constant_from_column_AsI32(column, row, layout) ==
    Const("I32", row[column].payload)

\* The seconds of a day, by which the Date arm multiplies the stored days.
SecondsPerDay == 86400

constant_from_column(column, row, layout) ==
    LET ty == layout[column].ty
        p == row[column].payload
    IN Const(ty, IF ty = "Date" THEN (p * SecondsPerDay) \div SecondsPerDay
                 ELSE IF ty = "Timestamp" THEN DateTime(p, 0)
                 ELSE p)

\* row_literal_from_row, first without the null check and then as it is.
row_literal_from_row_NoNullCheck(row, layout) ==
    [c \in 1..Len(layout) |->
        IF layout[c].nullable
        THEN Nullable(Some(constant_from_column(c, row, layout)))
        ELSE NonNull(constant_from_column(c, row, layout))]

row_literal_from_row(row, layout) ==
    [c \in 1..Len(layout) |->
        IF layout[c].nullable
        THEN Nullable(IF ~row[c].null
                      THEN Some(constant_from_column(c, row, layout))
                      ELSE None)
        ELSE NonNull(constant_from_column(c, row, layout))]

\* The comparator of the layout's vtable: column by column, a null column
\* before every non-null one; the payload of a null column is not looked at.
RECURSIVE RowLessFrom(_, _, _)
RowLessFrom(a, b, c) ==
    IF c > Len(a) THEN FALSE
    ELSE IF a[c].null /\ b[c].null THEN RowLessFrom(a, b, c + 1)
    ELSE IF a[c].null THEN TRUE
    ELSE IF b[c].null THEN FALSE
    ELSE IF a[c].payload # b[c].payload THEN a[c].payload < b[c].payload
    ELSE RowLessFrom(a, b, c + 1)

RowLess(a, b) == RowLessFrom(a, b, 1)


\* ------------------------------------------------ the incremental runtime

\* What the facade pushes into an input handle: (key, diff) for a set,
\* (key, (value, diff)) for a map.
TupleKey(t) == t[1]
TupleVal(kind, t) == IF kind = "Set" THEN <<>> ELSE t[2][1]
TupleWeight(kind, t) == IF kind = "Set" THEN t[2] ELSE t[2][2]

\* The summed weight of the pair (key, val) over the buffered tuples.
RECURSIVE PairWeight(_, _, _, _)
PairWeight(kind, B, S, p) ==
    IF S = {} THEN 0
    ELSE LET t == CHOOSE x \in S : TRUE
         IN (IF <<TupleKey(t), TupleVal(kind, t)>> = p
             THEN TupleWeight(kind, t) * CopiesIn(t, B) ELSE 0)
            + PairWeight(kind, B, S \ {t}, p)

RECURSIVE SortRows(_)
SortRows(S) ==
    IF S = {} THEN <<>>
    ELSE LET m == CHOOSE x \in S : \A y \in S \ {x} : RowLess(x, y)
         IN <<m>> \o SortRows(S \ {m})

\* The consolidated batch of a bag of tuples: the keys in ascending order, under
\* each key its values in ascending order, each with its summed weight, and no
\* pair of weight zero. A set has the one unit value <<>> under each key.
Consolidate(kind, B) ==
    LET S == BagToSet(B)
        pairs == { <<TupleKey(t), TupleVal(kind, t)>> : t \in S }
        live == { p \in pairs : PairWeight(kind, B, S, p) # 0 }
        keys == SortRows({ p[1] : p \in live })
        valsOf(k) == SortRows({ p[2] : p \in { q \in live : q[1] = k } })
    IN [i \in 1..Len(keys) |->
          [key |-> keys[i],
           vals |-> [j \in 1..Len(valsOf(keys[i])) |->
                       [val |-> valsOf(keys[i])[j],
                        weight |-> PairWeight(kind, B, S,
                                              <<keys[i], valsOf(keys[i])[j]>>)]]]]

\* The constant the graph feeds sink 4 from: one tuple of weight +1.
ConstantTuple(layout) ==
    LET k == IF layout.key = 1
             THEN row_from_literal(<< Nullable(Some(Const("I32", 1))) >>, RowLayoutOf(1))
             ELSE row_from_literal(<< NonNull(Const("U32", 1)) >>, RowLayoutOf(2))
        v == row_from_literal(<< NonNull(Const("U32", 1)) >>, RowLayoutOf(2))
    IN IF layout.kind = "Set" THEN <<k, 1>> ELSE <<k, <<v, 1>>>>

\* Graph::source_nodes and Graph::sink_nodes, read before optimization.
\* Source 1 and sink 3 carry the kind of the pipeline, source 2 and sink 4 the
\* other kind.
OtherKind(kind) == IF kind = "Set" THEN "Map" ELSE "Set"
source_nodes(g) ==
    [n \in g.sources |-> StreamLayoutOf(IF n = 1 THEN g.pipe ELSE OtherKind(g.pipe))]
sink_nodes(g) ==
    IF g.sources = {}
    THEN [n \in {4} |-> [kind |-> "Set", key |-> 2, val |-> 0]]
    ELSE [n \in Sinks |-> StreamLayoutOf(IF n = 3 THEN g.pipe ELSE OtherKind(g.pipe))]

\* Runtime::init_circuit: the endpoints of the nodes the runtime instantiated.
\* Source 1 feeds sink 3. Source 2 has no reader: the optimizer removes it.
\* Sink 4 reads a constant, or has no producer and is never instantiated.
init_circuit(g) ==
    LET ins == ({1} \cup (IF g.optimize THEN {} ELSE {2})) \cap g.sources
        outs == (IF 1 \in g.sources THEN {3} ELSE {})
                    \cup (IF g.sink4 = "const" THEN {4} ELSE {})
    IN [inputs |-> [n \in ins |-> source_nodes(g)[n]],
        outputs |-> [n \in outs |-> sink_nodes(g)[n]]]

\* --------------------------------------------- DbspCircuit::consolidate_output

\* The set loop with the weight of the key not read from the cursor.
RECURSIVE SetKeyLoop_UnitWeight(_, _, _, _)
SetKeyLoop_UnitWeight(batch, k, key_layout, contents) ==
    IF k > Len(batch) THEN contents
    ELSE LET key == row_literal_from_row(batch[k].key, key_layout)
         IN SetKeyLoop_UnitWeight(batch, k + 1, key_layout, Append(contents, <<key, 1>>))

\* The while loop over the keys of a set: one (key, weight) per key.
RECURSIVE SetKeyLoop(_, _, _, _)
SetKeyLoop(batch, k, key_layout, contents) ==
    IF k > Len(batch) THEN contents
    ELSE LET diff == batch[k].vals[1].weight
             key == row_literal_from_row(batch[k].key, key_layout)
         IN SetKeyLoop(batch, k + 1, key_layout, Append(contents, <<key, diff>>))

\* The value loop putting each tuple in front of what was collected so far.
RECURSIVE MapValLoop_Prepend(_, _, _, _, _, _, _)
MapValLoop_Prepend(batch, k, v, key_literal, diff, value_layout, contents) ==
    IF v > Len(batch[k].vals) THEN contents
    ELSE LET value_literal == row_literal_from_row(batch[k].vals[v].val, value_layout)
         IN MapValLoop_Prepend(batch, k, v + 1, key_literal, diff, value_layout,
                               << <<key_literal, value_literal, diff>> >> \o contents)

\* The inner while loop over the values of key k; diff is what the outer loop
\* read before entering it.
RECURSIVE MapValLoop(_, _, _, _, _, _, _)
MapValLoop(batch, k, v, key_literal, diff, value_layout, contents) ==
    IF v > Len(batch[k].vals) THEN contents
    ELSE LET value_literal == row_literal_from_row(batch[k].vals[v].val, value_layout)
         IN MapValLoop(batch, k, v + 1, key_literal, diff, value_layout,
                       Append(contents, <<key_literal, value_literal, diff>>))

\* The outer while loop over the keys of a map. cursor.weight() is read once per
\* key, with the cursor on the key's first value.
RECURSIVE MapKeyLoop(_, _, _, _, _)
MapKeyLoop(batch, k, key_layout, value_layout, contents) ==
    IF k > Len(batch) THEN contents
    ELSE LET diff == batch[k].vals[1].weight
             key_literal == row_literal_from_row(batch[k].key, key_layout)
         IN MapKeyLoop(batch, k + 1, key_layout, value_layout,
                       MapValLoop(batch, k, 1, key_literal, diff, value_layout, contents))

\* The collection consolidate_output builds from the batch a present sink holds.
OutputContents(layout, batch) ==
    IF layout.kind = "Set"
    THEN StreamCollection("Set", SetKeyLoop(batch, 1, RowLayoutOf(layout.key), <<>>))
    ELSE StreamCollection("Map", MapKeyLoop(batch, 1, RowLayoutOf(layout.key),
                                            RowLayoutOf(layout.val), <<>>))


\* --------------------------------------------------- external record formats

\* The JSON texts a caller hands in: a malformed one, {"k":null} and {"k":1}.
JsonDocs == { "{", "{\"k\":null}", "{\"k\":1}" }

\* serde_json::from_slice / the stream deserializer: Err, or the parsed Value.
ParseJson(text) ==
    IF text = "{\"k\":null}" THEN [ok |-> TRUE, k |-> None]
    ELSE IF text = "{\"k\":1}" THEN [ok |-> TRUE, k |-> Some(1)]
    ELSE [ok |-> FALSE, k |-> None]

\* The generated JSON deserializer of the key layout: it writes the null bit of
\* column 1 from field k and the payload when k is a number.
DeserializeJson(value) ==
    << IF value.k = None THEN [null |-> TRUE, payload |-> UninitPayload]
                         ELSE [null |-> FALSE, payload |-> value.k[1]] >>

\* The CSV files a path may name: no file at all, or header-less records of one
\* field: "" (null), "1", or a record the reader cannot decode.
CsvRecords == { "", "1", "\\xff" }
CsvFiles(n) == { [exists |-> FALSE, records |-> <<>>] }
               \cup { [exists |-> TRUE, records |-> r] : r \in SeqsUpTo(CsvRecords, n) }

\* csv::Reader::read_record succeeds on a record
CsvReadable(record) == record # "\\xff"

\* The generated CSV marshaller of the key layout.
MarshallCsv(record) ==
    << IF record = "" THEN [null |-> TRUE, payload |-> UninitPayload]
                      ELSE [null |-> FALSE, payload |-> 1] >>

\* ------------------------------------------------------------------- state

VARIABLES
    graph,              \* the Graph, the optimize flag and the layouts Demands registers (for CSV and JSON alike)
    pc,                 \* where the controlling thread is: before new, between calls, inside kill, after kill
    inputs,             \* DbspCircuit.inputs: NodeId -> (Option<RowInput>, StreamLayout)
    outputs,            \* DbspCircuit.outputs: NodeId -> (Option<RowOutput>, StreamLayout)
    jit,                \* the JIT's executable memory and vtables: none, live, freed
    runtime,            \* the DBSPHandle: none, fresh (no tick yet), stepped, killed
    csv_demands,        \* the layouts with a generated CSV marshaller
    json_deser_demands, \* the layouts with a generated JSON deserializer
    pending,            \* per allocated input handle: the tuples buffered for the next tick
    mailbox,            \* per allocated output handle: the batch of the last tick, until taken
    handles,            \* per source: the JsonSetHandle values alive
    joined,             \* what runtime.kill() returned, kept until kill returns it
    rowsLeft,           \* rows the run may still ingest
    ret,                \* the call that has just returned and what it returned, until the caller goes on
    tick,               \* history: what the calls since the last tick handed to source 1
    obs,                \* history: the same for the tick whose batch sink 3 holds
    seen,               \* history: the same for the batch the last consolidate_output(3) took
    ub,                 \* history: a dangling vtable was dereferenced
    program,            \* the row of the program table, or None before new_program
    txn,                \* each caller of update_program: where it is, and what it read
    calls,              \* how many update_program calls have begun
    mods,               \* how many commits have changed the stored code
    encoding,           \* a ProgramStatus on its way to the two columns and back
    reply,              \* what the last read or delete of the program table returned
    sql,                \* the last call of a sqllib function: which, on what, and what came back
    held,               \* the collection the caller keeps from a consolidate_output
    unread,             \* sink 4 holds what the first tick produced, and nobody has read it
    demands,            \* a Demands value under construction: its csv and json_deser maps
    conv                \* a literal on its way to a row and back: where it is, and what it became

vars == << graph, pc, inputs, outputs, jit, runtime, csv_demands, json_deser_demands,
           pending, mailbox, handles, joined, rowsLeft, ret, tick, obs, seen, ub, demands, conv, held, unread, program, txn, calls, mods, sql, reply, encoding >>

\* What the caller owns, which no method of DbspCircuit or JsonSetHandle
\* touches, and the note of the first tick, which only step and
\* consolidate_output change.
outside == << demands, conv, held, unread, program, txn, calls, mods, sql, reply, encoding >>

\* The callers of update_program, the tenants, the code texts, and a caller
\* between calls.
Callers == {1, 2}
Tenants == {"t1", "t2"}
Codes == {"a", "b", "c"}
NoTxn == [at |-> "idle", tenant_id |-> "", program_code |-> None, status |-> None,
          schema |-> None, guard |-> None, latest_version |-> 0, code |-> "",
          new_version |-> 0, result |-> "", version |-> 0]

\* No status is being encoded or decoded.
NoColumns == [at |-> "idle", status |-> <<>>, pair |-> <<>>, back |-> <<>>]

\* Nothing has been read from the program table.
NoReply == [op |-> "", tenant_id |-> "", result |-> "", rows |-> <<>>]

\* No sqllib function has been called.
NoSql == [fn |-> "", variant |-> <<>>, args |-> <<>>, outcome |-> "", result |-> <<>>]

\* No literal is being converted.
NoConversion == [at |-> "idle", layout |-> 0, literal |-> <<>>, row |-> <<>>, back |-> <<>>]

\* The layouts a Demands value is asked about, and the mappings it is given.
DemandLayouts == {1, 2}
Mappings == {"m1", "m2"}

\* Demands::new
Demands_new == [csv |-> [l \in DemandLayouts |-> None],
                json_deser |-> [l \in DemandLayouts |-> None]]

circuit == << inputs, outputs, jit, runtime, csv_demands, json_deser_demands >>

\* The arguments of DbspCircuit::new and the build it runs in: the graph, the
\* optimize flag, the layouts the Demands registered JSON and CSV mappings
\* under, the layout the JSON mappings declare (JsonDeserConfig::layout), and
\* whether the build has debug assertions.
Graphs ==
    [pipe : Kinds, sink4 : {"const", "dead"}, optimize : BOOLEAN, demands : {{}, {1}},
     sources : {Sources}, mappings_layout : {1}, debug_assertions : {TRUE}]

\* The same with mappings that declare the layout they are registered under or
\* another one, in builds with and without debug assertions.
DemandGraphs ==
    [pipe : Kinds, sink4 : {"const", "dead"}, optimize : BOOLEAN, demands : {{}, {1}},
     sources : {Sources}, mappings_layout : {1, 2}, debug_assertions : BOOLEAN]

\* The graph of constant_stream.json: no source, and one sink that reads a
\* constant set of one U32 column.
ConstantStream ==
    [pipe |-> "Map", sink4 |-> "const", optimize |-> TRUE, demands |-> {}, sources |-> {},
     mappings_layout |-> 1, debug_assertions |-> TRUE]

Return(op, node, status, why, coll) ==
    [op |-> op, node |-> node, status |-> status, why |-> why, coll |-> coll]

RECURSIVE SeqToBag(_)
SeqToBag(s) == IF s = <<>> THEN EmptyBag ELSE SetToBag({Head(s)}) (+) SeqToBag(Tail(s))

NoCall == Return("none", 0, "ok", "", NoCollection)

\* log: every entry handed in; kept: those a clear_input has not discarded;
\* pushes: how many of them came through a JsonSetHandle.
EmptyTick == [log |-> EmptyBag, kept |-> EmptyBag, pushes |-> 0]
Logged(t, entries, how) ==
    [log |-> t.log (+) SeqToBag(entries), kept |-> t.kept (+) SeqToBag(entries),
     pushes |-> t.pushes + (IF how = "push" THEN Len(entries) ELSE 0)]

InitCircuit(G, budget) ==
    /\ graph \in G
    /\ pc = "new"
    /\ inputs = <<>>
    /\ outputs = <<>>
    /\ jit = "none"
    /\ runtime = "none"
    /\ csv_demands = {}
    /\ json_deser_demands = {}
    /\ pending = <<>>
    /\ mailbox = <<>>
    /\ handles = [n \in Sources |-> 0]
    /\ joined = "none"
    /\ rowsLeft = budget
    /\ ret = NoCall
    /\ tick = EmptyTick
    /\ obs = EmptyTick
    /\ seen = EmptyTick
    /\ ub = FALSE
    /\ demands = Demands_new
    /\ conv = NoConversion
    /\ held = NoCollection
    /\ unread = FALSE
    /\ sql = NoSql
    /\ reply = NoReply
    /\ encoding = NoColumns
    /\ program = None
    /\ txn = [c \in Callers |-> NoTxn]
    /\ calls = 0
    /\ mods = 0

\* Every graph and demand registry, before DbspCircuit::new.
Init == InitCircuit(Graphs, MaxRows)

\* The graphs whose declared nodes are all instantiated or all used by the data
\* path: the pipeline from source 1 to sink 3, with its demands registered.
TickGraphs == { g \in Graphs : g.optimize /\ g.sink4 = "dead" /\ g.demands = {1} }
InitTick == InitCircuit(TickGraphs, MaxTickRows)

\* ------------------------------------------------------------ DbspCircuit::new

\* The maps the runtime returned, left-joined with the declared nodes.
\* (first: the join that keeps only what the runtime returned)
JoinDeclared_Dropped(instantiated, declared) ==
    [n \in DOMAIN instantiated |-> [ep |-> TRUE, layout |-> instantiated[n]]]

JoinDeclared(instantiated, declared) ==
    [n \in DOMAIN instantiated \cup DOMAIN declared |->
        IF n \in DOMAIN instantiated
        THEN [ep |-> TRUE, layout |-> instantiated[n]]
        ELSE [ep |-> FALSE, layout |-> declared[n]]]

\* debug_assert_eq!(layout, mappings.layout) is compiled into the builds with
\* debug assertions only.
DemandLayoutChecked(g) == g.debug_assertions

New ==
    /\ pc = "new"
    /\ IF DemandLayoutChecked(graph) /\ \E layout \in graph.demands :
                                            layout # graph.mappings_layout
       THEN /\ pc' = "failed"
            /\ ret' = Return("new", 0, "panic", "demand_layout", NoCollection)
            /\ UNCHANGED << outside, graph, circuit, pending, mailbox, handles, joined,
                            rowsLeft, tick, obs, seen, ub >>
       ELSE /\ LET sources == source_nodes(graph)
                   sinks == sink_nodes(graph)
                   rt == init_circuit(graph)
               IN /\ inputs' = JoinDeclared(rt.inputs, sources)
                  /\ outputs' = JoinDeclared(rt.outputs, sinks)
                  /\ pending' = [n \in DOMAIN rt.inputs |-> EmptyBag]
                  /\ mailbox' = [n \in DOMAIN rt.outputs |-> <<>>]
            /\ json_deser_demands' = graph.demands
            /\ csv_demands' = graph.demands
            /\ jit' = "live"
            /\ runtime' = "fresh"
            /\ pc' = "ready"
            /\ ret' = Return("new", 0, "ok", "", NoCollection)
            /\ UNCHANGED << outside, graph, handles, joined, rowsLeft, tick, obs, seen, ub >>


\* --------------------------------------------------------- shared by the calls

\* A call returns r.
Returns(r) == ret' = r /\ seen' = EmptyTick

\* A call returns r and changes nothing.
Quiet(r) ==
    /\ Returns(r)
    /\ UNCHANGED << outside, graph, pc, circuit, pending, mailbox, handles, joined, rowsLeft,
                    tick, obs, ub >>

\* (first: a failure that is swallowed, the call returning as if it had worked)
Panics_Swallowed(op, node, why) == Quiet(Return(op, node, "ok", why, NoCollection))

Panics(op, node, why) == Quiet(Return(op, node, "panic", why, NoCollection))

\* CollectionHandle::append / push: the tuples join what is buffered for target.
Buffer(target, tuples, entries, how) ==
    /\ Len(tuples) <= rowsLeft
    /\ pending' = [pending EXCEPT ![target] = @ (+) SeqToBag(tuples)]
    /\ rowsLeft' = rowsLeft - Len(tuples)
    /\ tick' = IF target = 1 /\ runtime # "killed" THEN Logged(tick, entries, how) ELSE tick

\* The literal a JSON text or a CSV record stands for, as the caller reads it.
JsonLiteral(text) ==
    IF text = "{\"k\":1}" THEN << Nullable(Some(Const("I32", 1))) >> ELSE << Nullable(None) >>
CsvLiteral(record) ==
    IF record = "1" THEN << Nullable(Some(Const("I32", 1))) >> ELSE << Nullable(None) >>

\* ---------------------------------------------------- DbspCircuit::append_input

Collections(n) ==
    { StreamCollection("Set", r) : r \in SeqsUpTo(SetEntries, n) }
    \cup { StreamCollection("Map", r) : r \in SeqsUpTo(MapEntries, n) }

\* The batch append_input builds from the literal collection.
\* (first: a loop that stops after the first tuple)
LiteralBatch_First(data, layout) ==
    IF data.kind = "Set"
    THEN [i \in 1..(IF Len(data.rows) > 0 THEN 1 ELSE 0) |->
            << row_from_literal(data.rows[i][1], RowLayoutOf(layout.key)), data.rows[i][2] >>]
    ELSE [i \in 1..(IF Len(data.rows) > 0 THEN 1 ELSE 0) |->
            << row_from_literal(data.rows[i][1], RowLayoutOf(layout.key)),
               << row_from_literal(data.rows[i][2], RowLayoutOf(layout.val)),
                  data.rows[i][3] >> >>]

LiteralBatch(data, layout) ==
    IF data.kind = "Set"
    THEN [i \in 1..Len(data.rows) |->
            << row_from_literal(data.rows[i][1], RowLayoutOf(layout.key)), data.rows[i][2] >>]
    ELSE [i \in 1..Len(data.rows) |->
            << row_from_literal(data.rows[i][1], RowLayoutOf(layout.key)),
               << row_from_literal(data.rows[i][2], RowLayoutOf(layout.val)),
                  data.rows[i][3] >> >>]

\* append_input that skips a collection of the wrong kind instead of unwrapping
\* the layout.
AppendInput_KindIgnored(target, data) ==
    /\ pc = "ready"
    /\ ret = NoCall
    /\ IF target \notin DOMAIN inputs
       THEN Panics("append_input", target, "unknown_node")
       ELSE LET input == inputs[target].ep
                layout == inputs[target].layout
            IN IF input
               THEN IF data.kind # layout.kind
                    THEN Quiet(Return("append_input", target, "ok", "kind", NoCollection))
                    ELSE /\ Buffer(target, LiteralBatch(data, layout),
                                   data.rows, "append_input")
                         /\ Returns(Return("append_input", target, "ok", "", NoCollection))
                         /\ UNCHANGED << outside, graph, pc, circuit, mailbox, handles, joined,
                                         obs, ub >>
               ELSE Quiet(Return("append_input", target, "ok", "unused", NoCollection))

AppendInput(target, data) ==
    /\ pc = "ready"
    /\ ret = NoCall
    /\ IF target \notin DOMAIN inputs
       THEN Panics("append_input", target, "unknown_node")
       ELSE LET input == inputs[target].ep
                layout == inputs[target].layout
            IN IF input
               THEN IF data.kind # layout.kind
                    THEN Panics("append_input", target, "kind")
                    ELSE /\ Buffer(target, LiteralBatch(data, layout),
                                   data.rows, "append_input")
                         /\ Returns(Return("append_input", target, "ok", "", NoCollection))
                         /\ UNCHANGED << outside, graph, pc, circuit, mailbox, handles, joined,
                                         obs, ub >>
               ELSE Quiet(Return("append_input", target, "ok", "unused", NoCollection))

\* ------------------------------------------------------------ DbspCircuit::step

\* DBSPHandle::step when no worker fails: every source's buffer is taken, sink 3
\* receives the consolidated tuples of source 1, sink 4 its constant on the
\* first tick and nothing afterwards.
RuntimeStep ==
    [pending |-> [n \in DOMAIN pending |-> EmptyBag],
     mailbox |-> [n \in DOMAIN mailbox |->
                    IF n = 3 THEN Consolidate(graph.pipe, pending[1])
                    ELSE IF runtime = "fresh"
                         THEN Consolidate(outputs[n].layout.kind,
                                          SetToBag({ConstantTuple(outputs[n].layout)}))
                         ELSE <<>>]]

StepOk ==
    /\ pc = "ready"
    /\ ret = NoCall
    /\ pending' = RuntimeStep.pending
    /\ mailbox' = RuntimeStep.mailbox
    /\ runtime' = "stepped"
    /\ obs' = tick
    /\ tick' = EmptyTick
    /\ Returns(Return("step", 0, "ok", "", NoCollection))
    /\ unread' = (runtime = "fresh" /\ 4 \in DOMAIN mailbox)
    /\ UNCHANGED << demands, conv, held, program, txn, calls, mods, sql, reply, encoding, graph, pc, inputs, outputs, jit, csv_demands, json_deser_demands,
                    handles, joined, rowsLeft, ub >>

\* (first: a step that tears the circuit down when a worker failed)
StepErr_Kills ==
    /\ pc = "ready"
    /\ ret = NoCall
    /\ jit' = "freed"
    /\ runtime' = "killed"
    /\ inputs' = <<>>
    /\ outputs' = <<>>
    /\ pc' = "dead"
    /\ Returns(Return("step", 0, "err", "worker", NoCollection))
    /\ UNCHANGED << outside, graph, csv_demands, json_deser_demands, pending, mailbox, handles,
                    joined, rowsLeft, tick, obs, ub >>

\* A worker failed: step hands the runtime's error to the caller.
StepErr ==
    /\ pc = "ready"
    /\ ret = NoCall
    /\ Quiet(Return("step", 0, "err", "worker", NoCollection))

Step == StepOk \/ StepErr

\* ---------------------------------------------- DbspCircuit::consolidate_output

\* consolidate_output unwrapping the endpoint instead of matching on it.
ConsolidateOutput_Unwrap(output) ==
    /\ pc = "ready"
    /\ ret = NoCall
    /\ IF output \notin DOMAIN outputs
       THEN Panics("consolidate_output", output, "unknown_node")
       ELSE LET endpoint == outputs[output].ep
                layout == outputs[output].layout
            IN IF endpoint
               THEN /\ ret' = Return("consolidate_output", output, "ok", "",
                                     OutputContents(layout, mailbox[output]))
                    /\ mailbox' = [mailbox EXCEPT ![output] = <<>>]
                    /\ seen' = IF output = 3 THEN obs ELSE EmptyTick
                    /\ obs' = IF output = 3 THEN EmptyTick ELSE obs
                    /\ unread' = (unread /\ output # 4)
                    /\ UNCHANGED << demands, conv, held, program, txn, calls, mods, sql, reply, encoding, graph, pc, circuit, pending, handles, joined,
                                    rowsLeft, tick, ub >>
               ELSE Panics("consolidate_output", output, "unreachable")

ConsolidateOutput(output) ==
    /\ pc = "ready"
    /\ ret = NoCall
    /\ IF output \notin DOMAIN outputs
       THEN Panics("consolidate_output", output, "unknown_node")
       ELSE LET endpoint == outputs[output].ep
                layout == outputs[output].layout
            IN IF endpoint
               THEN /\ ret' = Return("consolidate_output", output, "ok", "",
                                     OutputContents(layout, mailbox[output]))
                    /\ mailbox' = [mailbox EXCEPT ![output] = <<>>]
                    /\ seen' = IF output = 3 THEN obs ELSE EmptyTick
                    /\ obs' = IF output = 3 THEN EmptyTick ELSE obs
                    /\ unread' = (unread /\ output # 4)
                    /\ UNCHANGED << demands, conv, held, program, txn, calls, mods, sql, reply, encoding, graph, pc, circuit, pending, handles, joined,
                                    rowsLeft, tick, ub >>
               ELSE Quiet(Return("consolidate_output", output, "ok", "unreachable",
                                 EmptyCollection(layout)))

\* ------------------------------------------------------------ DbspCircuit::kill

\* (first: a kill that frees the JIT memory before the maps are dropped)
KillRuntime_FreesFirst ==
    /\ pc = "ready"
    /\ ret = NoCall
    /\ \E r \in {"ok", "err"} : joined' = r
    /\ runtime' = "killed"
    /\ jit' = "freed"
    /\ pc' = "kill_runtime_done"
    /\ Returns(Return("kill", 0, "running", "", NoCollection))
    /\ tick' = EmptyTick
    /\ obs' = EmptyTick
    /\ UNCHANGED << outside, graph, inputs, outputs, csv_demands, json_deser_demands,
                    pending, mailbox, handles, rowsLeft, ub >>

\* runtime.kill(): the workers are joined and the runtime lets go of its
\* endpoints; the join result is kept for the return. No tick follows, and the
\* history of the ticks ends here.
KillRuntime ==
    /\ pc = "ready"
    /\ ret = NoCall
    /\ \E r \in {"ok", "err"} : joined' = r
    /\ runtime' = "killed"
    /\ pc' = "kill_runtime_done"
    /\ Returns(Return("kill", 0, "running", "", NoCollection))
    /\ tick' = EmptyTick
    /\ obs' = EmptyTick
    /\ UNCHANGED << outside, graph, inputs, outputs, jit, csv_demands, json_deser_demands,
                    pending, mailbox, handles, rowsLeft, ub >>

\* drop(self.inputs): a buffer no JsonSetHandle shares is freed with its rows.
KillDropInputs ==
    /\ pc = "kill_runtime_done"
    /\ inputs' = <<>>
    /\ pending' = [n \in { m \in DOMAIN pending : handles[m] > 0 } |-> pending[n]]
    /\ pc' = "kill_inputs_dropped"
    /\ UNCHANGED << outside, graph, outputs, jit, runtime, csv_demands, json_deser_demands,
                    mailbox, handles, joined, rowsLeft, ret, tick, obs, seen, ub >>

\* drop(self.outputs)
KillDropOutputs ==
    /\ pc = "kill_inputs_dropped"
    /\ outputs' = <<>>
    /\ mailbox' = <<>>
    /\ pc' = "kill_outputs_dropped"
    /\ UNCHANGED << outside, graph, inputs, jit, runtime, csv_demands, json_deser_demands,
                    pending, handles, joined, rowsLeft, ret, tick, obs, seen, ub >>

\* (first: a kill that takes the caller's collection down with the JIT memory)
KillFree_DropsHeld ==
    /\ pc = "kill_outputs_dropped"
    /\ jit' = "freed"
    /\ pc' = "dead"
    /\ Returns(Return("kill", 0, joined, "", NoCollection))
    /\ held' = NoCollection
    /\ UNCHANGED << demands, conv, unread, program, txn, calls, mods, sql, reply, encoding, graph, inputs, outputs, runtime, csv_demands,
                    json_deser_demands, pending, mailbox, handles, joined, rowsLeft, tick,
                    obs, ub >>

\* self.jit.free_memory(), and kill returns the join result.
KillFree ==
    /\ pc = "kill_outputs_dropped"
    /\ jit' = "freed"
    /\ pc' = "dead"
    /\ Returns(Return("kill", 0, joined, "", NoCollection))
    /\ UNCHANGED << outside, graph, inputs, outputs, runtime, csv_demands, json_deser_demands,
                    pending, mailbox, handles, joined, rowsLeft, tick, obs, ub >>


\* ------------------------------ DbspCircuit::append_json_input / append_json_record

JsonBatch(json) == [i \in 1..Len(json) |-> << DeserializeJson(ParseJson(json[i])), 1 >>]
JsonEntries(json) == [i \in 1..Len(json) |-> << JsonLiteral(json[i]), 1 >>]

\* The records of a stream before its first malformed one.
RECURSIVE ParsedPrefix(_)
ParsedPrefix(json) ==
    IF json = <<>> \/ ~ParseJson(Head(json)).ok THEN <<>>
    ELSE <<Head(json)>> \o ParsedPrefix(Tail(json))

\* append_json_input pushing record by record, so that the records before a
\* malformed one are in the source when the call fails.
AppendJsonInput_PushesParsed(target, json) ==
    /\ pc = "ready"
    /\ ret = NoCall
    /\ IF target \notin DOMAIN inputs
       THEN Panics("append_json_input", target, "unknown_node")
       ELSE LET input == inputs[target].ep
                layout == inputs[target].layout
            IN IF input
               THEN IF layout.kind = "Set"
                    THEN IF layout.key \notin json_deser_demands
                         THEN Panics("append_json_input", target, "demand")
                         ELSE /\ Buffer(target, JsonBatch(ParsedPrefix(json)),
                                        JsonEntries(ParsedPrefix(json)), "append_json_input")
                              /\ Returns(Return("append_json_input", target,
                                                IF ParsedPrefix(json) = json THEN "ok" ELSE "panic",
                                                IF ParsedPrefix(json) = json THEN "" ELSE "parse",
                                                NoCollection))
                              /\ UNCHANGED << outside, graph, pc, circuit, mailbox, handles,
                                              joined, obs, ub >>
                    ELSE Panics("append_json_input", target, "todo")
               ELSE Quiet(Return("append_json_input", target, "ok", "unused", NoCollection))

AppendJsonInput(target, json) ==
    /\ pc = "ready"
    /\ ret = NoCall
    /\ IF target \notin DOMAIN inputs
       THEN Panics("append_json_input", target, "unknown_node")
       ELSE LET input == inputs[target].ep
                layout == inputs[target].layout
            IN IF input
               THEN IF layout.kind = "Set"
                    THEN IF layout.key \notin json_deser_demands
                         THEN Panics("append_json_input", target, "demand")
                         ELSE IF \E i \in 1..Len(json) : ~ParseJson(json[i]).ok
                         THEN Panics("append_json_input", target, "parse")
                         ELSE /\ Buffer(target, JsonBatch(json),
                                        JsonEntries(json), "append_json_input")
                              /\ Returns(Return("append_json_input", target, "ok", "",
                                                NoCollection))
                              /\ UNCHANGED << outside, graph, pc, circuit, mailbox, handles,
                                              joined, obs, ub >>
                    ELSE Panics("append_json_input", target, "todo")
               ELSE Quiet(Return("append_json_input", target, "ok", "unused", NoCollection))

\* append_json_record that treats a map source like an unused one.
AppendJsonRecord_MapSkipped(target, record) ==
    /\ pc = "ready"
    /\ ret = NoCall
    /\ IF target \notin DOMAIN inputs
       THEN Panics("append_json_record", target, "unknown_node")
       ELSE LET input == inputs[target].ep
                layout == inputs[target].layout
            IN IF input
               THEN IF layout.kind = "Set"
                    THEN IF layout.key \notin json_deser_demands
                         THEN Panics("append_json_record", target, "demand")
                         ELSE IF ~ParseJson(record).ok
                         THEN Panics("append_json_record", target, "parse")
                         ELSE /\ Buffer(target, JsonBatch(<<record>>),
                                        JsonEntries(<<record>>), "append_json_record")
                              /\ Returns(Return("append_json_record", target, "ok", "",
                                                NoCollection))
                              /\ UNCHANGED << outside, graph, pc, circuit, mailbox, handles,
                                              joined, obs, ub >>
                    ELSE Quiet(Return("append_json_record", target, "ok", "todo", NoCollection))
               ELSE Quiet(Return("append_json_record", target, "ok", "unused", NoCollection))

AppendJsonRecord(target, record) ==
    /\ pc = "ready"
    /\ ret = NoCall
    /\ IF target \notin DOMAIN inputs
       THEN Panics("append_json_record", target, "unknown_node")
       ELSE LET input == inputs[target].ep
                layout == inputs[target].layout
            IN IF input
               THEN IF layout.kind = "Set"
                    THEN IF layout.key \notin json_deser_demands
                         THEN Panics("append_json_record", target, "demand")
                         ELSE IF ~ParseJson(record).ok
                         THEN Panics("append_json_record", target, "parse")
                         ELSE /\ Buffer(target, JsonBatch(<<record>>),
                                        JsonEntries(<<record>>), "append_json_record")
                              /\ Returns(Return("append_json_record", target, "ok", "",
                                                NoCollection))
                              /\ UNCHANGED << outside, graph, pc, circuit, mailbox, handles,
                                              joined, obs, ub >>
                    ELSE Panics("append_json_record", target, "todo")
               ELSE Quiet(Return("append_json_record", target, "ok", "unused", NoCollection))

\* ------------------------------------------------ DbspCircuit::append_csv_input

CsvBatch(records) == [i \in 1..Len(records) |-> << MarshallCsv(records[i]), 1 >>]
CsvEntries(records) == [i \in 1..Len(records) |-> << CsvLiteral(records[i]), 1 >>]

\* append_csv_input opening the file before it looks at the endpoint.
AppendCsvInput_OpensFirst(target, file) ==
    /\ pc = "ready"
    /\ ret = NoCall
    /\ IF target \notin DOMAIN inputs
       THEN Panics("append_csv_input", target, "unknown_node")
       ELSE LET input == inputs[target].ep
                layout == inputs[target].layout
            IN IF ~file.exists
               THEN Panics("append_csv_input", target, "io")
               ELSE IF input
               THEN IF layout.kind = "Set"
                    THEN IF layout.key \notin csv_demands
                         THEN Panics("append_csv_input", target, "demand")
                         ELSE IF \E i \in 1..Len(file.records) : ~CsvReadable(file.records[i])
                         THEN Panics("append_csv_input", target, "parse")
                         ELSE /\ Buffer(target, CsvBatch(file.records),
                                        CsvEntries(file.records), "append_csv_input")
                              /\ Returns(Return("append_csv_input", target, "ok", "",
                                                NoCollection))
                              /\ UNCHANGED << outside, graph, pc, circuit, mailbox, handles,
                                              joined, obs, ub >>
                    ELSE Panics("append_csv_input", target, "todo")
               ELSE Quiet(Return("append_csv_input", target, "ok", "unused", NoCollection))

AppendCsvInput(target, file) ==
    /\ pc = "ready"
    /\ ret = NoCall
    /\ IF target \notin DOMAIN inputs
       THEN Panics("append_csv_input", target, "unknown_node")
       ELSE LET input == inputs[target].ep
                layout == inputs[target].layout
            IN IF input
               THEN IF ~file.exists
                    THEN Panics("append_csv_input", target, "io")
                    ELSE IF layout.kind = "Set"
                    THEN IF layout.key \notin csv_demands
                         THEN Panics("append_csv_input", target, "demand")
                         ELSE IF \E i \in 1..Len(file.records) : ~CsvReadable(file.records[i])
                         THEN Panics("append_csv_input", target, "parse")
                         ELSE /\ Buffer(target, CsvBatch(file.records),
                                        CsvEntries(file.records), "append_csv_input")
                              /\ Returns(Return("append_csv_input", target, "ok", "",
                                                NoCollection))
                              /\ UNCHANGED << outside, graph, pc, circuit, mailbox, handles,
                                              joined, obs, ub >>
                    ELSE Panics("append_csv_input", target, "todo")
               ELSE Quiet(Return("append_csv_input", target, "ok", "unused", NoCollection))

\* ------------------------------------------ DbspCircuit::json_input_set, JsonSetHandle

HandlesAlive == handles[1] + handles[2]

JsonInputSet(target) ==
    /\ pc = "ready"
    /\ ret = NoCall
    /\ IF target \notin DOMAIN inputs
       THEN Panics("json_input_set", target, "unknown_node")
       ELSE LET input == inputs[target].ep
                layout == inputs[target].layout
            IN IF layout.kind # "Set"
               THEN Panics("json_input_set", target, "kind")
               ELSE IF ~input
               THEN Quiet(Return("json_input_set", target, "none", "unused", NoCollection))
               ELSE IF layout.key \notin json_deser_demands
               THEN Panics("json_input_set", target, "demand")
               ELSE /\ HandlesAlive < MaxHandles
                    /\ handles' = [handles EXCEPT ![target] = @ + 1]
                    /\ Returns(Return("json_input_set", target, "some", "", NoCollection))
                    /\ UNCHANGED << outside, graph, pc, circuit, pending, mailbox, joined,
                                    rowsLeft, tick, obs, ub >>

\* The producers holding handles run beside the controlling thread, also while
\* it is inside kill; one call's result is looked at before the next call.
Unobserved == ret = NoCall \/ (ret.op = "kill" /\ ret.status = "running")

\* #[derive(Clone)]: a clone shares the input handle, the function pointer and
\* the vtable reference of the handle it was cloned from.
HandleClone(n) ==
    /\ handles[n] > 0
    /\ Unobserved
    /\ HandlesAlive < MaxHandles
    /\ handles' = [handles EXCEPT ![n] = @ + 1]
    /\ UNCHANGED << outside, graph, pc, circuit, pending, mailbox, joined, rowsLeft, ret,
                    tick, obs, seen, ub >>

\* A handle goes out of scope. The last owner of the buffer frees it and drops
\* its rows through their vtable.
HandleDrop(n) ==
    /\ handles[n] > 0
    /\ Unobserved
    /\ handles' = [handles EXCEPT ![n] = @ - 1]
    /\ LET last == handles[n] = 1 /\ n \notin DOMAIN inputs
       IN /\ pending' = IF last THEN [m \in DOMAIN pending \ {n} |-> pending[m]]
                                ELSE pending
          /\ ub' = (ub \/ (last /\ jit = "freed" /\ pending[n] # EmptyBag))
    /\ UNCHANGED << outside, graph, pc, circuit, mailbox, joined, rowsLeft, ret, tick, obs, seen >>

\* JsonSetHandle::push. Nothing in the handle knows whether the circuit still
\* exists: after free_memory the vtable reference dangles, and what the push
\* does then is undefined (here: it crashes, or it lands as before).
\* (first: a push that ignores the weight it is given, as append_json_record does)
HandlePush_Unweighted(n, key, weight) ==
    /\ handles[n] > 0
    /\ Unobserved
    /\ IF ~ParseJson(key).ok
       THEN Quiet(Return("push", n, "err", "parse", NoCollection))
       ELSE /\ ub' = (ub \/ jit = "freed")
            /\ \/ /\ Buffer(n, << << DeserializeJson(ParseJson(key)), 1 >> >>,
                            << << JsonLiteral(key), weight >> >>, "push")
                  /\ Returns(Return("push", n, "ok", "", NoCollection))
                  /\ UNCHANGED << outside, graph, pc, circuit, mailbox, handles, joined, obs >>
               \/ /\ jit = "freed"
                  /\ Returns(Return("push", n, "crash", "", NoCollection))
                  /\ UNCHANGED << outside, graph, pc, circuit, pending, mailbox, handles, joined,
                                  rowsLeft, tick, obs >>

HandlePush(n, key, weight) ==
    /\ handles[n] > 0
    /\ Unobserved
    /\ IF ~ParseJson(key).ok
       THEN Quiet(Return("push", n, "err", "parse", NoCollection))
       ELSE /\ ub' = (ub \/ jit = "freed")
            /\ \/ /\ Buffer(n, << << DeserializeJson(ParseJson(key)), weight >> >>,
                            << << JsonLiteral(key), weight >> >>, "push")
                  /\ Returns(Return("push", n, "ok", "", NoCollection))
                  /\ UNCHANGED << outside, graph, pc, circuit, mailbox, handles, joined, obs >>
               \/ /\ jit = "freed"
                  /\ Returns(Return("push", n, "crash", "", NoCollection))
                  /\ UNCHANGED << outside, graph, pc, circuit, pending, mailbox, handles, joined,
                                  rowsLeft, tick, obs >>

\* JsonSetHandle::clear_input: what is buffered for the next tick is discarded,
\* its rows dropped through their vtable.
HandleClearInput(n) ==
    /\ handles[n] > 0
    /\ Unobserved
    /\ pending' = [pending EXCEPT ![n] = EmptyBag]
    /\ tick' = IF n = 1 /\ runtime # "killed" THEN [tick EXCEPT !.kept = EmptyBag] ELSE tick
    /\ ub' = (ub \/ (jit = "freed" /\ pending[n] # EmptyBag))
    /\ Returns(Return("clear_input", n, "ok", "", NoCollection))
    /\ UNCHANGED << outside, graph, pc, circuit, mailbox, handles, joined, rowsLeft, obs >>

\* The caller has looked at the result of the call and goes on.
Resume ==
    /\ ret # NoCall
    /\ ~(ret.op = "kill" /\ ret.status = "running")
    /\ Returns(NoCall)
    /\ UNCHANGED << outside, graph, pc, circuit, pending, mailbox, handles, joined, rowsLeft,
                    tick, obs, ub >>

\* ------------------------------------------------------------ the state machine

\* The node ids the calls are tried with.
Targets == Sources \cup Undeclared
Outputs == Sinks \cup Undeclared

Next ==
    \/ New
    \/ \E target \in Targets, data \in Collections(rowsLeft) : AppendInput(target, data)
    \/ \E target \in Targets, json \in SeqsUpTo(JsonDocs, rowsLeft) : AppendJsonInput(target, json)
    \/ \E target \in Targets, record \in JsonDocs : AppendJsonRecord(target, record)
    \/ \E target \in Targets, file \in CsvFiles(rowsLeft) : AppendCsvInput(target, file)
    \/ Step
    \/ \E output \in Outputs : ConsolidateOutput(output)
    \/ \E target \in Targets : JsonInputSet(target)
    \/ \E n \in Sources : HandleClone(n)
    \/ \E n \in Sources : HandleDrop(n)
    \/ \E n \in Sources, key \in JsonDocs, weight \in Weights : HandlePush(n, key, weight)
    \/ \E n \in Sources : HandleClearInput(n)
    \/ KillRuntime
    \/ KillDropInputs
    \/ KillDropOutputs
    \/ KillFree
    \/ Resume

Spec == Init /\ [][Next]_vars

\* The data path: what is handed to source 1, the ticks, and what sink 3 returns.
NextTick ==
    \/ New
    \/ \E data \in Collections(rowsLeft) : AppendInput(1, data)
    \/ \E json \in SeqsUpTo(JsonDocs, rowsLeft) : AppendJsonInput(1, json)
    \/ \E record \in JsonDocs : AppendJsonRecord(1, record)
    \/ \E file \in CsvFiles(rowsLeft) : AppendCsvInput(1, file)
    \/ Step
    \/ ConsolidateOutput(3)
    \/ JsonInputSet(1)
    \/ HandleClone(1)
    \/ HandleDrop(1)
    \/ \E key \in JsonDocs, weight \in Weights : HandlePush(1, key, weight)
    \/ HandleClearInput(1)
    \/ Resume

SpecTick == InitTick /\ [][NextTick]_vars

\* ------------------------------------------------------------------ Demands

\* Demands::add_csv_deserialize: the mapping is inserted, and then the call
\* asserts that the insertion displaced nothing. The caller may catch the panic
\* and go on with the Demands value.
AddCsvDeserialize(layout, column_mappings) ==
    /\ pc = "new"
    /\ ret = NoCall
    /\ LET displaced == demands.csv[layout]
       IN /\ demands' = [demands EXCEPT !.csv[layout] = Some(column_mappings)]
          /\ Returns(Return("add_csv_deserialize", layout,
                            IF displaced = None THEN "ok" ELSE "panic",
                            IF displaced = None THEN "" ELSE "displaced", NoCollection))
    /\ UNCHANGED << conv, held, unread, program, txn, calls, mods, sql, reply, encoding, graph, pc, circuit, pending, mailbox, handles, joined, rowsLeft,
                    tick, obs, ub >>

\* Demands::add_json_deserialize
AddJsonDeserialize(layout, mappings) ==
    /\ pc = "new"
    /\ ret = NoCall
    /\ LET displaced == demands.json_deser[layout]
       IN /\ demands' = [demands EXCEPT !.json_deser[layout] = Some(mappings)]
          /\ Returns(Return("add_json_deserialize", layout,
                            IF displaced = None THEN "ok" ELSE "panic",
                            IF displaced = None THEN "" ELSE "displaced", NoCollection))
    /\ UNCHANGED << conv, held, unread, program, txn, calls, mods, sql, reply, encoding, graph, pc, circuit, pending, mailbox, handles, joined, rowsLeft,
                    tick, obs, ub >>

\* A Demands value being filled, before any circuit is made from it.
InitDemands == InitCircuit({ g \in Graphs : g.pipe = "Set" /\ g.optimize /\ g.sink4 = "dead"
                                            /\ g.demands = {} }, 0)

NextDemands ==
    \/ \E layout \in DemandLayouts, column_mappings \in Mappings :
          AddCsvDeserialize(layout, column_mappings)
    \/ \E layout \in DemandLayouts, mappings \in Mappings :
          AddJsonDeserialize(layout, mappings)
    \/ Resume

SpecDemands == InitDemands /\ [][NextDemands]_vars

\* ------------------------------------------------- a literal to a row and back

\* row_from_literal applied to a well-formed literal of a layout, as append_input
\* applies it to every literal it is given.
RowFromLiteral(id, literal) ==
    /\ pc = "new"
    /\ conv.at = "idle"
    /\ conv' = [at |-> "row", layout |-> id, literal |-> literal,
                row |-> row_from_literal(literal, RowLayoutOf(id)), back |-> <<>>]
    /\ UNCHANGED << demands, held, unread, program, txn, calls, mods, sql, reply, encoding, graph, pc, circuit, pending, mailbox, handles, joined,
                    rowsLeft, ret, tick, obs, seen, ub >>

\* row_literal_from_row applied to that row, as consolidate_output applies it to
\* every row of a batch.
RowLiteralFromRow ==
    /\ conv.at = "row"
    /\ conv' = [conv EXCEPT !.at = "literal",
                            !.back = row_literal_from_row(conv.row, RowLayoutOf(conv.layout))]
    /\ UNCHANGED << demands, held, unread, program, txn, calls, mods, sql, reply, encoding, graph, pc, circuit, pending, mailbox, handles, joined,
                    rowsLeft, ret, tick, obs, seen, ub >>

\* The bytes of a column whose null bit is set are whatever the memory held:
\* here they become another value than the one they had.
StalePayloads == { UninitPayload, 1 }
RowStale(column, payload) ==
    /\ conv.at = "row"
    /\ column \in 1..Len(conv.row)
    /\ conv.row[column].null
    /\ conv.row[column].payload # payload
    /\ conv' = [conv EXCEPT !.row[column].payload = payload]
    /\ UNCHANGED << demands, held, unread, program, txn, calls, mods, sql, reply, encoding, graph, pc, circuit,
                    pending, mailbox, handles, joined, rowsLeft, ret, tick, obs, seen, ub >>

\* The conversions alone, and the identity pipeline fed by append_input.
InitRow == InitCircuit(TickGraphs, MaxRows)

NextRow ==
    \/ \E id \in RowLayoutIds : \E literal \in LiteralsOf(id) : RowFromLiteral(id, literal)
    \/ \E column \in 1..4, payload \in StalePayloads : RowStale(column, payload)
    \/ RowLiteralFromRow
    \/ conv.at # "row" /\ New
    \/ \E data \in Collections(rowsLeft) : AppendInput(1, data)
    \/ Step
    \/ ConsolidateOutput(3)
    \/ Resume

SpecRow == InitRow /\ [][NextRow]_vars

\* ----------------------------------------------------------- a constant stream

\* `let output = circuit.consolidate_output(..)`: the caller binds the
\* collection the call returned. It owns it: a Vec of RowLiterals.
Keep ==
    /\ ret.op = "consolidate_output"
    /\ ret.status = "ok"
    /\ held # ret.coll
    /\ held' = ret.coll
    /\ UNCHANGED << demands, conv, unread, program, txn, calls, mods, sql, reply, encoding, graph, pc, circuit, pending, mailbox, handles,
                    joined, rowsLeft, ret, tick, obs, seen, ub >>

\* The graphs with a constant: constant_stream.json, and the pipelines whose
\* sink 4 reads one.
InitConst == InitCircuit({ ConstantStream } \cup { g \in Graphs : g.sink4 = "const" }, 0)

NextConst ==
    \/ New
    \/ Step
    \/ \E output \in Outputs : ConsolidateOutput(output)
    \/ Keep
    \/ KillRuntime
    \/ KillDropInputs
    \/ KillDropOutputs
    \/ KillFree
    \/ Resume

SpecConst == InitConst /\ [][NextConst]_vars

\* ------------------------------------------------- the demands handed to new

\* DbspCircuit::new with mappings that agree and that disagree with the layout
\* they are registered under, and what can be done with what it returns.
InitNew == InitCircuit(DemandGraphs, 0)

NextNew ==
    \/ New
    \/ Step
    \/ \E output \in Outputs : ConsolidateOutput(output)
    \/ KillRuntime
    \/ KillDropInputs
    \/ KillDropOutputs
    \/ KillFree
    \/ Resume

SpecNew == InitNew /\ [][NextNew]_vars

\* ------------------------------------------------- db::program: the program row

\* Everything but the program table and its callers.
facade == << sql, reply, encoding, demands, conv, held, unread, graph, pc, circuit, pending, mailbox, handles,
             joined, rowsLeft, ret, tick, obs, seen, ub >>

\* ProgramStatus: the eight variants; SqlError carries the compiler's
\* messages, RustError and SystemError a text.
ProgramStatus(tag, messages, error) == [tag |-> tag, messages |-> messages, error |-> error]
StatusNone == ProgramStatus("None", <<>>, "")
StatusSuccess == ProgramStatus("Success", <<>>, "")
StatusPending == ProgramStatus("Pending", <<>>, "")
StatusCompilingSql == ProgramStatus("CompilingSql", <<>>, "")
StatusCompilingRust == ProgramStatus("CompilingRust", <<>>, "")
SqlError(messages) == ProgramStatus("SqlError", messages, "")
RustError(error) == ProgramStatus("RustError", <<>>, error)
SystemError(error) == ProgramStatus("SystemError", <<>>, error)

\* The message lists a SqlError carries here, and the texts of the error column.
MessageLists == { <<>>, << "m" >>, << "m", "m" >> }
ErrorTexts == { "", "e", "[]", "[\"m\"]", "[\"m\",\"m\"]", "[" }

\* serde_json::to_string of a message list, and serde_json::from_str of a text
\* as a message list: ok is FALSE for a text that is not such a list.
MessagesToJson(messages) ==
    IF messages = <<>> THEN "[]"
    ELSE IF messages = << "m" >> THEN "[\"m\"]"
    ELSE "[\"m\",\"m\"]"
MessagesFromJson(text) ==
    IF text = "[]" THEN [ok |-> TRUE, messages |-> <<>>]
    ELSE IF text = "[\"m\"]" THEN [ok |-> TRUE, messages |-> << "m" >>]
    ELSE IF text = "[\"m\",\"m\"]" THEN [ok |-> TRUE, messages |-> << "m", "m" >>]
    ELSE [ok |-> FALSE, messages |-> <<>>]

\* ProgramStatus::to_columns: the status column and the error column.
to_columns(self) ==
    IF self.tag = "None" THEN << Some("none"), None >>
    ELSE IF self.tag = "Success" THEN << Some("success"), None >>
    ELSE IF self.tag = "Pending" THEN << Some("pending"), None >>
    ELSE IF self.tag = "CompilingSql" THEN << Some("compiling_sql"), None >>
    ELSE IF self.tag = "CompilingRust" THEN << Some("compiling_rust"), None >>
    ELSE IF self.tag = "SqlError"
         THEN << Some("sql_error"), Some(MessagesToJson(self.messages)) >>
    ELSE IF self.tag = "RustError" THEN << Some("rust_error"), Some(self.error) >>
    ELSE << Some("system_error"), Some(self.error) >>

\* Option::unwrap_or_default of the error column.
unwrap_or_default(error_string) == IF error_string = None THEN "" ELSE error_string[1]

\* (first: a decoder that takes the text of a sql_error as it is, unparsed)
from_columns_Unparsed(status_string, error_string) ==
    IF status_string = "none" THEN [ok |-> TRUE, status |-> StatusNone]
    ELSE IF status_string = "success" THEN [ok |-> TRUE, status |-> StatusSuccess]
    ELSE IF status_string = "pending" THEN [ok |-> TRUE, status |-> StatusPending]
    ELSE IF status_string = "compiling_sql" THEN [ok |-> TRUE, status |-> StatusCompilingSql]
    ELSE IF status_string = "compiling_rust"
         THEN [ok |-> TRUE, status |-> StatusCompilingRust]
    ELSE IF status_string = "sql_error"
         THEN LET error == unwrap_or_default(error_string)
                  parsed == MessagesFromJson(error)
              IN IF FALSE THEN [ok |-> TRUE, status |-> SqlError(parsed.messages)]
                 ELSE [ok |-> TRUE, status |-> SystemError(error)]
    ELSE IF status_string = "rust_error"
         THEN [ok |-> TRUE, status |-> RustError(unwrap_or_default(error_string))]
    ELSE IF status_string = "system_error"
         THEN [ok |-> TRUE, status |-> SystemError(unwrap_or_default(error_string))]
    ELSE [ok |-> FALSE, status |-> ProgramStatus("invalid_status", <<>>, status_string)]

\* ProgramStatus::from_columns
from_columns(status_string, error_string) ==
    IF status_string = "none" THEN [ok |-> TRUE, status |-> StatusNone]
    ELSE IF status_string = "success" THEN [ok |-> TRUE, status |-> StatusSuccess]
    ELSE IF status_string = "pending" THEN [ok |-> TRUE, status |-> StatusPending]
    ELSE IF status_string = "compiling_sql" THEN [ok |-> TRUE, status |-> StatusCompilingSql]
    ELSE IF status_string = "compiling_rust"
         THEN [ok |-> TRUE, status |-> StatusCompilingRust]
    ELSE IF status_string = "sql_error"
         THEN LET error == unwrap_or_default(error_string)
                  parsed == MessagesFromJson(error)
              IN IF parsed.ok THEN [ok |-> TRUE, status |-> SqlError(parsed.messages)]
                 ELSE [ok |-> TRUE, status |-> SystemError(error)]
    ELSE IF status_string = "rust_error"
         THEN [ok |-> TRUE, status |-> RustError(unwrap_or_default(error_string))]
    ELSE IF status_string = "system_error"
         THEN [ok |-> TRUE, status |-> SystemError(unwrap_or_default(error_string))]
    ELSE [ok |-> FALSE, status |-> ProgramStatus("invalid_status", <<>>, status_string)]

\* COALESCE(arg, column)
COALESCE(arg, column) == IF arg # None THEN arg[1] ELSE column

\* serde_json::to_string of a ProgramSchema
SchemaToJson(schema) == << "json", schema >>

\* The one program id has the one name.
ProgramName == "p1"

\* The row WHERE tenant_id = $1 AND id = $2 finds.
RowOf(tenant_id) == program # None /\ program[1].tenant_id = tenant_id

\* new_program: one INSERT, with version 1, status 'none' and no error or
\* schema. It is made while the id is not in the table.
NewProgram(tenant_id, program_code) ==
    /\ pc = "new"
    /\ program = None
    /\ program' = Some([tenant_id |-> tenant_id, name |-> ProgramName, version |-> 1,
                        code |-> program_code, status |-> to_columns(StatusNone)[1][1],
                        error |-> to_columns(StatusNone)[2], schema |-> None])
    /\ UNCHANGED << facade, txn, calls, mods >>

\* update_program up to the guard: the transaction begins, SELECT version, code
\* reads the committed row, and a guard that is not the version read returns
\* OutdatedProgramVersion; the transaction is dropped, which rolls it back.
UpdateProgramSelect(c, tenant_id, program_code, status, schema, guard) ==
    /\ pc = "new"
    /\ txn[c].at = "idle"
    /\ calls < MaxCalls
    /\ calls' = calls + 1
    /\ IF ~RowOf(tenant_id)
       THEN txn' = [txn EXCEPT ![c] = [NoTxn EXCEPT !.at = "returned",
                                                    !.tenant_id = tenant_id,
                                                    !.result = "UnknownProgram"]]
       ELSE LET latest_version == program[1].version
                code == program[1].code
                has_code_changed == program_code # None /\ program_code[1] # code
                new_version == IF has_code_changed THEN latest_version + 1
                                                   ELSE latest_version
            IN IF guard # None /\ guard[1] # latest_version
               THEN txn' = [txn EXCEPT ![c] =
                               [NoTxn EXCEPT !.at = "returned", !.guard = guard,
                                             !.tenant_id = tenant_id,
                                             !.program_code = program_code,
                                             !.result = "OutdatedProgramVersion",
                                             !.version = latest_version]]
               ELSE txn' = [txn EXCEPT ![c] =
                               [NoTxn EXCEPT !.at = "selected", !.guard = guard,
                                             !.tenant_id = tenant_id,
                                             !.program_code = program_code,
                                             !.status = status,
                                             !.schema = schema,
                                             !.latest_version = latest_version,
                                             !.code = code,
                                             !.new_version = new_version]]
    /\ UNCHANGED << facade, program, mods >>

\* The UPDATE .. RETURNING version of the transaction. It waits for the row
\* while another transaction has written it and not ended. When no row is the
\* tenant's and the id's, the transaction is rolled back and the call returns
\* UnknownProgram.
UpdateProgramUpdate(c) ==
    /\ txn[c].at = "selected"
    /\ \A d \in Callers \ {c} : txn[d].at # "updated"
    /\ IF RowOf(txn[c].tenant_id)
       THEN txn' = [txn EXCEPT ![c].at = "updated", ![c].version = txn[c].new_version]
       ELSE txn' = [txn EXCEPT ![c].at = "returned", ![c].result = "UnknownProgram"]
    /\ UNCHANGED << facade, program, calls, mods >>

\* The row the UPDATE writes over the committed row, from the arguments of the
\* call and the new_version it computed: the SET clause, each CASE reading the
\* columns of the row as it was.
UpdatedRow(row, t) ==
    LET columns == IF t.status = None THEN << None, None >> ELSE to_columns(t.status[1])
        reset_schema == t.status = Some(StatusPending)
        schema == IF reset_schema THEN None
                  ELSE IF t.schema # None THEN Some(SchemaToJson(t.schema[1]))
                  ELSE None
    IN [tenant_id |-> row.tenant_id,
        name |-> row.name,
        code |-> COALESCE(t.program_code, row.code),
        version |-> t.new_version,
        status |-> IF row.version = t.new_version THEN COALESCE(columns[1], row.status)
                   ELSE "none",
        error |-> IF row.version = t.new_version
                  THEN (IF columns[2] # None THEN columns[2] ELSE row.error)
                  ELSE None,
        schema |-> IF reset_schema THEN None
                   ELSE IF row.version = t.new_version
                        THEN (IF schema # None THEN schema ELSE row.schema)
                        ELSE None]

\* txn.commit(): the written row becomes the committed one, and the call
\* returns the version the UPDATE returned.
UpdateProgramCommit(c) ==
    /\ txn[c].at = "updated"
    /\ program' = Some(UpdatedRow(program[1], txn[c]))
    /\ mods' = mods + (IF program'[1].code # program[1].code THEN 1 ELSE 0)
    /\ txn' = [txn EXCEPT ![c].at = "returned", ![c].result = "Ok"]
    /\ UNCHANGED << facade, calls >>

\* The caller has its result and may call again.
UpdateProgramReturn(c) ==
    /\ txn[c].at = "returned"
    /\ txn' = [txn EXCEPT ![c] = NoTxn]
    /\ UNCHANGED << facade, program, calls, mods >>

Guards == { None } \cup { Some(v) : v \in 1..(MaxCalls + 1) }
CodeArgs == { None } \cup { Some(code) : code \in Codes }
StatusArgs == { None, Some(StatusSuccess), Some(StatusPending), Some(RustError("e")) }
SchemaArgs == { None, Some("s1"), Some("s2") }

InitProgram == InitCircuit({ g \in Graphs : g.pipe = "Set" /\ g.optimize /\ g.sink4 = "dead"
                                              /\ g.demands = {} }, 0)

\* The calls that change the code under a guard, by one tenant.
NextProgram ==
    \/ \E program_code \in Codes : NewProgram("t1", program_code)
    \/ \E c \in Callers, program_code \in CodeArgs, guard \in Guards :
          UpdateProgramSelect(c, "t1", program_code, None, None, guard)
    \/ \E c \in Callers : UpdateProgramUpdate(c)
    \/ \E c \in Callers : UpdateProgramCommit(c)
    \/ \E c \in Callers : UpdateProgramReturn(c)

SpecProgram == InitProgram /\ [][NextProgram]_vars

\* The calls that set status and schema, with and without a change of code, by
\* one tenant and without a guard.
NextStatus ==
    \/ \E program_code \in Codes : NewProgram("t1", program_code)
    \/ \E c \in Callers, program_code \in CodeArgs, status \in StatusArgs,
          schema \in SchemaArgs :
          calls < MaxStatusCalls
              /\ UpdateProgramSelect(c, "t1", program_code, status, schema, None)
    \/ \E c \in Callers : UpdateProgramUpdate(c)
    \/ \E c \in Callers : UpdateProgramCommit(c)
    \/ \E c \in Callers : UpdateProgramReturn(c)

SpecStatus == InitProgram /\ [][NextStatus]_vars

\* ------------------------------------------- db::program: reads and deletes

\* Everything but the program table and the reply of the last read or delete.
noreply == << sql, encoding, demands, conv, held, unread, graph, pc, circuit, pending, mailbox,
              handles, joined, rowsLeft, ret, tick, obs, seen, ub >>

\* The ProgramDescr made of a row: the status decoded from its two columns,
\* the code only when it was asked for.
ProgramDescr(row, with_code) ==
    [name |-> row.name, version |-> row.version,
     status |-> from_columns(row.status, row.error).status,
     schema |-> row.schema,
     code |-> IF with_code THEN Some(row.code) ELSE None]

Reply(op, tenant_id, result, rows) ==
    [op |-> op, tenant_id |-> tenant_id, result |-> result, rows |-> rows]

\* get_program_by_id: .. FROM program WHERE id = $1 AND tenant_id = $2
GetProgramById(tenant_id, with_code) ==
    /\ pc = "new"
    /\ reply' = IF RowOf(tenant_id)
                THEN IF from_columns(program[1].status, program[1].error).ok
                     THEN Reply("get_program_by_id", tenant_id, "Ok",
                                << ProgramDescr(program[1], with_code) >>)
                     ELSE Reply("get_program_by_id", tenant_id, "invalid_status", <<>>)
                ELSE Reply("get_program_by_id", tenant_id, "UnknownProgram", <<>>)
    /\ UNCHANGED << noreply, program, txn, calls, mods >>

\* get_program_by_name: .. FROM program WHERE name = $1 AND tenant_id = $2
GetProgramByName(tenant_id, program_name, with_code) ==
    /\ pc = "new"
    /\ reply' = IF RowOf(tenant_id) /\ program[1].name = program_name
                THEN IF from_columns(program[1].status, program[1].error).ok
                     THEN Reply("get_program_by_name", tenant_id, "Ok",
                                << ProgramDescr(program[1], with_code) >>)
                     ELSE Reply("get_program_by_name", tenant_id, "invalid_status", <<>>)
                ELSE Reply("get_program_by_name", tenant_id, "UnknownProgramName", <<>>)
    /\ UNCHANGED << noreply, program, txn, calls, mods >>

\* list_programs: .. FROM program WHERE tenant_id = $1
list_programs(tenant_id, with_code) ==
    /\ pc = "new"
    /\ reply' = IF RowOf(tenant_id)
                THEN IF from_columns(program[1].status, program[1].error).ok
                     THEN Reply("list_programs", tenant_id, "Ok",
                                << ProgramDescr(program[1], with_code) >>)
                     ELSE Reply("list_programs", tenant_id, "invalid_status", <<>>)
                ELSE Reply("list_programs", tenant_id, "Ok", <<>>)
    /\ UNCHANGED << noreply, program, txn, calls, mods >>

\* (first: a DELETE whose WHERE clause names the id only)
DeleteProgram_AnyTenant(tenant_id) ==
    /\ pc = "new"
    /\ \A c \in Callers : txn[c].at # "updated"
    /\ IF program # None
       THEN /\ program' = None
            /\ reply' = Reply("delete_program", tenant_id, "Ok", <<>>)
       ELSE /\ program' = program
            /\ reply' = Reply("delete_program", tenant_id, "UnknownProgram", <<>>)
    /\ UNCHANGED << noreply, txn, calls, mods >>

\* delete_program: DELETE FROM program WHERE id = $1 AND tenant_id = $2. It
\* waits for the row while a transaction has written it and not ended.
DeleteProgram(tenant_id) ==
    /\ pc = "new"
    /\ \A c \in Callers : txn[c].at # "updated"
    /\ IF RowOf(tenant_id)
       THEN /\ program' = None
            /\ reply' = Reply("delete_program", tenant_id, "Ok", <<>>)
       ELSE /\ program' = program
            /\ reply' = Reply("delete_program", tenant_id, "UnknownProgram", <<>>)
    /\ UNCHANGED << noreply, txn, calls, mods >>

ProgramNames == { ProgramName, "p2" }

\* The calls of two tenants on the one program id.
NextTenant ==
    \/ \E tenant_id \in Tenants, program_code \in Codes : NewProgram(tenant_id, program_code)
    \/ \E tenant_id \in Tenants, program_code \in CodeArgs :
          calls < MaxStatusCalls
              /\ UpdateProgramSelect(1, tenant_id, program_code, None, None, None)
    \/ \E c \in Callers : UpdateProgramUpdate(c)
    \/ \E c \in Callers : UpdateProgramCommit(c)
    \/ \E c \in Callers : UpdateProgramReturn(c)
    \/ \E tenant_id \in Tenants, with_code \in BOOLEAN : GetProgramById(tenant_id, with_code)
    \/ \E tenant_id \in Tenants, program_name \in ProgramNames, with_code \in BOOLEAN :
          GetProgramByName(tenant_id, program_name, with_code)
    \/ \E tenant_id \in Tenants, with_code \in BOOLEAN : list_programs(tenant_id, with_code)
    \/ \E tenant_id \in Tenants : DeleteProgram(tenant_id)

SpecTenant == InitProgram /\ [][NextTenant]_vars

\* ------------------------------------- db::program: the status in two columns

\* Everything but the status being encoded or decoded.
nocolumns == << sql, reply, demands, conv, held, unread, program, txn, calls, mods, graph,
                pc, circuit, pending, mailbox, handles, joined, rowsLeft, ret, tick, obs,
                seen, ub >>

\* Every ProgramStatus, and the texts a status column may hold: the eight
\* names and two that are none of them.
Statuses ==
    { StatusNone, StatusSuccess, StatusPending, StatusCompilingSql, StatusCompilingRust }
    \cup { SqlError(messages) : messages \in MessageLists }
    \cup { RustError(error) : error \in ErrorTexts }
    \cup { SystemError(error) : error \in ErrorTexts }
StatusStrings ==
    { "none", "success", "pending", "compiling_sql", "compiling_rust", "sql_error",
      "rust_error", "system_error", "", "Success" }

\* s.to_columns()
ToColumns(status) ==
    /\ pc = "new"
    /\ encoding' = [at |-> "columns", status |-> << status >>, pair |-> to_columns(status),
                   back |-> <<>>]
    /\ UNCHANGED nocolumns

\* The two columns as a row holds them, whatever wrote them.
ColumnsRead(status_string, error_string) ==
    /\ pc = "new"
    /\ encoding' = [at |-> "columns", status |-> <<>>,
                   pair |-> << Some(status_string), error_string >>, back |-> <<>>]
    /\ UNCHANGED nocolumns

\* ProgramStatus::from_columns(&status, error)
FromColumns ==
    /\ encoding.at = "columns"
    /\ encoding' = [encoding EXCEPT !.at = "status",
                                  !.back = << from_columns(encoding.pair[1][1],
                                                           encoding.pair[2]) >>]
    /\ UNCHANGED nocolumns

NextColumns ==
    \/ \E status \in Statuses : ToColumns(status)
    \/ \E status_string \in StatusStrings,
          error_string \in { None } \cup { Some(text) : text \in ErrorTexts } :
          ColumnsRead(status_string, error_string)
    \/ FromColumns

SpecColumns == InitProgram /\ [][NextColumns]_vars

\* ------------------------------------------------------------------ sqllib

\* Everything but the last sqllib call.
nosql == << reply, encoding, demands, conv, held, unread, program, txn, calls, mods, graph, pc, circuit,
            pending, mailbox, handles, joined, rowsLeft, ret, tick, obs, seen, ub >>

\* A function a some_function macro generates: the suffix of its name, one
\* character for each argument, and for each argument whether its type in
\* the signature is an Option. Every Option argument is unwrapped with `?`.
Generated(suffix, optional) == [suffix |-> suffix, optional |-> optional]

some_function1 == { Generated(<< "N" >>, << TRUE >>) }

some_function2 ==
    { Generated(<< "N", "N" >>, << TRUE, TRUE >>),
      Generated(<< "_", "N" >>, << FALSE, TRUE >>),
      Generated(<< "N", "_" >>, << TRUE, FALSE >>) }

some_function3 ==
    { Generated(<< "_", "_", "N" >>, << FALSE, FALSE, TRUE >>),
      Generated(<< "_", "N", "_" >>, << FALSE, TRUE, FALSE >>),
      Generated(<< "_", "N", "N" >>, << FALSE, TRUE, TRUE >>),
      Generated(<< "N", "_", "_" >>, << TRUE, FALSE, FALSE >>),
      Generated(<< "N", "_", "N" >>, << TRUE, FALSE, TRUE >>),
      Generated(<< "N", "N", "_" >>, << TRUE, TRUE, FALSE >>),
      Generated(<< "N", "N", "N" >>, << TRUE, TRUE, TRUE >>) }

some_function4 ==
    { Generated(<< "_", "_", "_", "N" >>, << FALSE, FALSE, FALSE, TRUE >>),
      Generated(<< "_", "_", "N", "_" >>, << FALSE, FALSE, TRUE, FALSE >>),
      Generated(<< "_", "_", "N", "N" >>, << FALSE, FALSE, TRUE, TRUE >>),
      Generated(<< "_", "N", "_", "_" >>, << FALSE, TRUE, FALSE, FALSE >>),
      Generated(<< "_", "N", "_", "N" >>, << FALSE, TRUE, FALSE, TRUE >>),
      Generated(<< "_", "N", "N", "_" >>, << FALSE, TRUE, TRUE, FALSE >>),
      Generated(<< "_", "N", "N", "N" >>, << FALSE, TRUE, TRUE, TRUE >>),
      Generated(<< "N", "_", "_", "_" >>, << TRUE, FALSE, FALSE, FALSE >>),
      Generated(<< "N", "_", "_", "N" >>, << TRUE, FALSE, TRUE, TRUE >>),
      Generated(<< "N", "_", "N", "_" >>, << TRUE, TRUE, FALSE, FALSE >>),
      Generated(<< "N", "_", "N", "N" >>, << TRUE, TRUE, TRUE, TRUE >>),
      Generated(<< "N", "N", "_", "_" >>, << TRUE, FALSE, FALSE, FALSE >>),
      Generated(<< "N", "N", "_", "N" >>, << TRUE, FALSE, TRUE, TRUE >>),
      Generated(<< "N", "N", "N", "_" >>, << TRUE, TRUE, TRUE, FALSE >>),
      Generated(<< "N", "N", "N", "N" >>, << TRUE, TRUE, TRUE, TRUE >>) }

\* The values of an argument type, and the arguments a generated function
\* can be called with: a value for an argument that is not an Option, wrapped
\* here in Some as well, and None or Some of a value for one that is.
ArgValues == {0, 1}
ArgsOf(f) ==
    { a \in [1..Len(f.suffix) -> { None } \cup { Some(v) : v \in ArgValues }] :
        \A i \in 1..Len(f.suffix) : ~f.optional[i] => a[i] # None }

\* The base function, f_ .. f____, applied to the unwrapped arguments.
BaseFunction(args) == [applied |-> args]

\* The body of a generated function: `let argi = argi?;` for every Option
\* argument, then Some of the base function.
SomeFunctionBody(f, args) ==
    IF \E i \in 1..Len(args) : f.optional[i] /\ args[i] = None THEN None
    ELSE Some(BaseFunction([i \in 1..Len(args) |-> args[i][1]]))

\* A call of a generated function.
SomeFunction(f, args) ==
    /\ pc = "new"
    /\ sql' = [fn |-> "some_function", variant |-> f, args |-> args, outcome |-> "returned",
               result |-> SomeFunctionBody(f, args)]
    /\ UNCHANGED nosql

\* What a call comes to: a value returned, or a panic.
Returned(value) == [outcome |-> "returned", result |-> value]
Panicked == [outcome |-> "panic", result |-> <<>>]

\* The integer types of the division helpers that are modelled, at their own
\* widths, with the least and the greatest value of each.
IntTypes == { "i16", "i32" }
MinOf(ty) == IF ty = "i16" THEN -32768 ELSE -2147483647 - 1
MaxOf(ty) == IF ty = "i16" THEN 32767 ELSE 2147483647
IntValues(ty) == { MinOf(ty), -7, -1, 0, 1, 2, 7, MaxOf(ty) }

\* The quotient rounded toward zero (a divisor that has no negation among
\* the integers at hand is the least of them: the quotient is 1 or 0).
TruncDiv(l, r) ==
    IF r < -2147483647 THEN (IF l = r THEN 1 ELSE 0)
    ELSE LET ar == IF r < 0 THEN -r ELSE r
             t == IF l >= 0 THEN l \div ar ELSE (l + ar - 1) \div ar
         IN IF r > 0 THEN t ELSE -t

\* `left / right` of a signed integer type: a panic for a zero divisor and
\* for MIN / -1, whose quotient the type does not hold, in every build.
Divide(ty, l, r) ==
    IF r = 0 THEN Panicked                              \* attempt to divide by zero
    ELSE IF l = MinOf(ty) /\ r = -1 THEN Panicked       \* attempt to divide with overflow
    ELSE Returned(Some(TruncDiv(l, r)))

\* The four helpers of a type, as each is written for i16, i32 and i64.
div_T_T(ty, left, right) ==
    IF right = 0 THEN Returned(None) ELSE Divide(ty, left, right)
div_TN_T(ty, left, right) ==
    IF right = 0 THEN Returned(None)
    ELSE IF left # None THEN Divide(ty, left[1], right)
    ELSE Returned(None)
div_T_TN(ty, left, right) ==
    IF right = Some(0) THEN Returned(None)
    ELSE IF right # None THEN Divide(ty, left, right[1])
    ELSE Returned(None)
div_TN_TN(ty, left, right) ==
    IF right = Some(0) THEN Returned(None)
    ELSE IF left # None /\ right # None THEN Divide(ty, left[1], right[1])
    ELSE Returned(None)

div_i16_i16(left, right) == div_T_T("i16", left, right)
div_i16N_i16(left, right) == div_TN_T("i16", left, right)
div_i16_i16N(left, right) == div_T_TN("i16", left, right)
div_i16N_i16N(left, right) == div_TN_TN("i16", left, right)
div_i32_i32(left, right) == div_T_T("i32", left, right)
div_i32N_i32(left, right) == div_TN_T("i32", left, right)
div_i32_i32N(left, right) == div_T_TN("i32", left, right)
div_i32N_i32N(left, right) == div_TN_TN("i32", left, right)

\* The helper of a type and a suffix, given its arguments; an argument that
\* is not an Option is held in Some here and unwrapped for the call.
DivHelper(ty, suffix, left, right) ==
    IF ty = "i16"
    THEN (IF suffix = << "_", "_" >> THEN div_i16_i16(left[1], right[1])
          ELSE IF suffix = << "N", "_" >> THEN div_i16N_i16(left, right[1])
          ELSE IF suffix = << "_", "N" >> THEN div_i16_i16N(left[1], right)
          ELSE div_i16N_i16N(left, right))
    ELSE (IF suffix = << "_", "_" >> THEN div_i32_i32(left[1], right[1])
          ELSE IF suffix = << "N", "_" >> THEN div_i32N_i32(left, right[1])
          ELSE IF suffix = << "_", "N" >> THEN div_i32_i32N(left[1], right)
          ELSE div_i32N_i32N(left, right))

DivSuffixes == { << "_", "_" >>, << "N", "_" >>, << "_", "N" >>, << "N", "N" >> }

\* The arguments a helper of the suffix can be called with.
DivArgs(ty, suffix) ==
    { a \in [1..2 -> { None } \cup { Some(v) : v \in IntValues(ty) }] :
        \A i \in 1..2 : suffix[i] = "_" => a[i] # None }

\* A call of a division helper.
Div(ty, suffix, args) ==
    /\ pc = "new"
    /\ sql' = [fn |-> "div", variant |-> << ty, suffix >>, args |-> args,
               outcome |-> DivHelper(ty, suffix, args[1], args[2]).outcome,
               result |-> DivHelper(ty, suffix, args[1], args[2]).result]
    /\ UNCHANGED nosql

\* The weights of the type: W::zero() is 0 and W::one().neg() is -1.
MinWeight == -(2 ^ (WeightBits - 1))
MaxWeight == 2 ^ (WeightBits - 1) - 1
PushWeights == MinWeight..MaxWeight

\* w.add_by_ref(&negone) of a signed integer type: outside the type the sum
\* is a panic in a build with overflow checks and wraps around in one without.
AddNegOne(w, overflow_checks) ==
    IF w - 1 >= MinWeight THEN Returned(w - 1)
    ELSE IF overflow_checks THEN Panicked
    ELSE Returned(((w - 1 - MinWeight) % (2 ^ WeightBits)) + MinWeight)

\* weighted_push: while w != 0, push a clone of the value and add -1 to w.
RECURSIVE weighted_push(_, _, _, _)
weighted_push(vec, value, w, overflow_checks) ==
    IF w = 0 THEN Returned(vec)
    ELSE LET pushed == Append(vec, value)
             next == AddNegOne(w, overflow_checks)
         IN IF next.outcome = "panic" THEN [outcome |-> "panic", result |-> pushed]
            ELSE weighted_push(pushed, value, next.result, overflow_checks)

\* The vectors and the values weighted_push is called with.
PushValues == { 5, 7 }
PushVecs == { <<>>, << 5 >>, << 7, 5 >> }

\* A call of weighted_push, in a build with or without overflow checks; the
\* result is the vector as the call leaves it.
WeightedPush(vec, value, weight, overflow_checks) ==
    /\ pc = "new"
    /\ sql' = [fn |-> "weighted_push", variant |-> << overflow_checks >>,
               args |-> << vec, << value >>, << weight >> >>,
               outcome |-> weighted_push(vec, value, weight, overflow_checks).outcome,
               result |-> weighted_push(vec, value, weight, overflow_checks).result]
    /\ UNCHANGED nosql

\* The nullable boolean operators, arm by arm.
\* (first: or_bN_b without its second arm)
or_bN_b_NoTrueArm(left, right) ==
    IF left # None THEN Some(left[1] \/ right)
    ELSE None

or_bN_b(left, right) ==
    IF left # None THEN Some(left[1] \/ right)
    ELSE IF right = TRUE THEN Some(TRUE)
    ELSE None

or_b_bN(left, right) ==
    IF right # None THEN Some(left \/ right[1])
    ELSE IF left = TRUE THEN Some(TRUE)
    ELSE None

or_bN_bN(left, right) ==
    IF left # None /\ right # None THEN Some(left[1] \/ right[1])
    ELSE IF left = Some(TRUE) THEN Some(TRUE)
    ELSE IF right = Some(TRUE) THEN Some(TRUE)
    ELSE None

and_bN_b(left, right) ==
    IF left # None THEN Some(left[1] /\ right)
    ELSE IF right = FALSE THEN Some(FALSE)
    ELSE None

and_b_bN(left, right) ==
    IF right # None THEN Some(left /\ right[1])
    ELSE IF left = FALSE THEN Some(FALSE)
    ELSE None

and_bN_bN(left, right) ==
    IF left # None /\ right # None THEN Some(left[1] /\ right[1])
    ELSE IF left = Some(FALSE) THEN Some(FALSE)
    ELSE IF right = Some(FALSE) THEN Some(FALSE)
    ELSE None

\* The operator of a name and a suffix, given its arguments; an argument
\* that is not an Option is held in Some here and unwrapped for the call.
BoolOps == { "or", "and" }
BoolSuffixes == { << "N", "_" >>, << "_", "N" >>, << "N", "N" >> }
BoolHelper(op, suffix, left, right) ==
    IF op = "or"
    THEN (IF suffix = << "N", "_" >> THEN or_bN_b(left, right[1])
          ELSE IF suffix = << "_", "N" >> THEN or_b_bN(left[1], right)
          ELSE or_bN_bN(left, right))
    ELSE (IF suffix = << "N", "_" >> THEN and_bN_b(left, right[1])
          ELSE IF suffix = << "_", "N" >> THEN and_b_bN(left[1], right)
          ELSE and_bN_bN(left, right))

\* The arguments an operator of the suffix can be called with.
BoolArgs(suffix) ==
    { a \in [1..2 -> { None, Some(TRUE), Some(FALSE) }] :
        \A i \in 1..2 : suffix[i] = "_" => a[i] # None }

\* A call of a nullable boolean operator.
Bool(op, suffix, args) ==
    /\ pc = "new"
    /\ sql' = [fn |-> "bool", variant |-> << op, suffix >>, args |-> args,
               outcome |-> "returned", result |-> BoolHelper(op, suffix, args[1], args[2])]
    /\ UNCHANGED nosql

InitSqllib == InitCircuit({ g \in Graphs : g.pipe = "Set" /\ g.optimize /\ g.sink4 = "dead"
                                             /\ g.demands = {} }, 0)

NextSqllib ==
    \/ \E f \in some_function1 \cup some_function2 \cup some_function3 \cup some_function4 :
          \E args \in ArgsOf(f) : SomeFunction(f, args)
    \/ \E ty \in IntTypes, suffix \in DivSuffixes :
          \E args \in DivArgs(ty, suffix) : Div(ty, suffix, args)
    \/ \E op \in BoolOps, suffix \in BoolSuffixes :
          \E args \in BoolArgs(suffix) : Bool(op, suffix, args)
    \/ \E vec \in PushVecs, value \in PushValues, weight \in PushWeights,
          overflow_checks \in BOOLEAN :
          WeightedPush(vec, value, weight, overflow_checks)

SpecSqllib == InitSqllib /\ [][NextSqllib]_vars

\* ------------------------------------------------------------ what is checked

AppendOps == {"append_input", "append_json_input", "append_json_record", "append_csv_input"}

\* The (key, value) pair and the weight of an entry of a literal collection; a
\* set entry has the unit value <<>>.
EntryPair(kind, e) == IF kind = "Set" THEN <<e[1], <<>>>> ELSE <<e[1], e[2]>>
EntryWeight(kind, e) == IF kind = "Set" THEN e[2] ELSE e[3]

\* The summed weight the entries of the bag B give the pair p.
RECURSIVE EntriesWeight(_, _, _, _)
EntriesWeight(kind, B, S, p) ==
    IF S = {} THEN 0
    ELSE LET e == CHOOSE x \in S : TRUE
         IN (IF EntryPair(kind, e) = p THEN EntryWeight(kind, e) * CopiesIn(e, B) ELSE 0)
            + EntriesWeight(kind, B, S \ {e}, p)

\* What a bag of entries amounts to: every pair with its summed weight, the
\* pairs of weight zero left out.
Amount(kind, B) ==
    LET S == BagToSet(B)
        pairs == { EntryPair(kind, e) : e \in S }
    IN { <<p[1], p[2], EntriesWeight(kind, B, S, p)>> :
            p \in { q \in pairs : EntriesWeight(kind, B, S, q) # 0 } }

\* What a batch of the runtime holds, read back as literals.
BatchAmount(layout, batch) ==
    UNION { { << row_literal_from_row(batch[i].key, RowLayoutOf(layout.key)),
                 IF layout.kind = "Set" THEN <<>>
                 ELSE row_literal_from_row(batch[i].vals[j].val, RowLayoutOf(layout.val)),
                 batch[i].vals[j].weight >> : j \in 1..Len(batch[i].vals) }
            : i \in 1..Len(batch) }

\* What a returned collection holds.
CollAmount(coll) ==
    { IF coll.kind = "Set" THEN << coll.rows[i][1], <<>>, coll.rows[i][2] >>
                           ELSE coll.rows[i] : i \in 1..Len(coll.rows) }

\* consolidate_output has just returned the batch of sink 3.
TookSink3 == pc = "ready" /\ ret.op = "consolidate_output" /\ ret.node = 3

\* C1: while the circuit exists (from new until kill starts), whatever was
\* appended, stepped or consolidated, inputs has exactly the sources and outputs
\* exactly the sinks the graph declared before optimization; a node the runtime
\* instantiated has its endpoint, any other declared node has none and keeps its
\* declared StreamLayout.
C1_DeclaredNodesKept ==
    pc = "ready" =>
        /\ DOMAIN inputs = DOMAIN source_nodes(graph)
        /\ DOMAIN outputs = DOMAIN sink_nodes(graph)
        /\ \A n \in DOMAIN inputs :
              /\ inputs[n].ep = (n \in DOMAIN init_circuit(graph).inputs)
              /\ inputs[n].layout = source_nodes(graph)[n]
        /\ \A n \in DOMAIN outputs :
              /\ outputs[n].ep = (n \in DOMAIN init_circuit(graph).outputs)
              /\ outputs[n].layout = sink_nodes(graph)[n]

\* An optimized graph with a dead sink, after an append, a tick and a
\* consolidate_output: source 2 and sink 4 are still there, without endpoints.
C1_Witness ==
    /\ pc = "ready"
    /\ runtime = "stepped"
    /\ rowsLeft = 0
    /\ ret.op = "consolidate_output"
    /\ 2 \in DOMAIN inputs /\ ~inputs[2].ep /\ inputs[1].ep
    /\ 4 \in DOMAIN outputs /\ ~outputs[4].ep /\ outputs[3].ep

\* C2 as stated: the batch a tick leaves in sink 3 is what everything handed to
\* source 1 since the tick before amounts to, each entry counted once, and
\* nothing handed in before or after.
C2_EverythingAppendedObserved ==
    pc = "ready" =>
        BatchAmount(outputs[3].layout, mailbox[3]) = Amount(graph.pipe, obs.log)

\* C2, amended: the batch a tick leaves in sink 3 is what the entries handed to
\* source 1 since the tick before amount to, each counted once, those left out
\* that a JsonSetHandle::clear_input discarded before the tick; nothing handed in
\* before the previous tick or after this one is in it.
C2_TickIsolation ==
    pc = "ready" =>
        BatchAmount(outputs[3].layout, mailbox[3]) = Amount(graph.pipe, obs.kept)

\* A tick has left a batch in sink 3 and more was appended after it.
C2_Witness ==
    /\ pc = "ready"
    /\ runtime = "stepped"
    /\ mailbox[3] # <<>>
    /\ obs.kept # EmptyBag
    /\ tick.kept # EmptyBag

\* C3: for the identity set pipeline, the collection consolidate_output returns
\* after a tick has, for every literal L, one tuple (L, w) with w the sum of the
\* weights appended for L in that tick when the sum is not zero, and no tuple
\* for L when the sum is zero.
C3_WeightAdditivity ==
    (TookSink3 /\ ret.coll.kind = "Set") =>
        \A L \in KeyLits :
            LET sum == EntriesWeight("Set", seen.kept, BagToSet(seen.kept), <<L, <<>>>>)
                at == { i \in 1..Len(ret.coll.rows) : ret.coll.rows[i][1] = L }
            IN IF sum = 0 THEN at = {}
               ELSE Cardinality(at) = 1 /\ \A i \in at : ret.coll.rows[i][2] = sum

\* (L, +1) was appended twice in one tick, and the one tuple (L, 2) came out.
C3_Witness ==
    /\ TookSink3
    /\ ret.coll.kind = "Set"
    /\ \E L \in KeyLits : /\ CopiesIn(<<L, 1>>, seen.kept) = 2
                          /\ ret.coll.rows = << <<L, 2>> >>

\* C4 as stated: for a map sink, consolidate_output returns one tuple for every
\* (key, value) pair of the tick's consolidated batch, and each tuple carries
\* the consolidated weight of its own pair.
C4_MapWeightPerPair ==
    (TookSink3 /\ ret.coll.kind = "Map") =>
        /\ CollAmount(ret.coll) = Amount("Map", seen.kept)
        /\ Len(ret.coll.rows) = Cardinality(Amount("Map", seen.kept))

\* The order of the layout's comparator, on literals.
LiteralLess(a, b, layout) ==
    RowLess(row_from_literal(a, RowLayoutOf(layout)), row_from_literal(b, RowLayoutOf(layout)))

\* C5: in every collection consolidate_output returns, the keys ascend strictly
\* (a set has each key once), under one key of a map the values ascend
\* strictly, and no weight is zero.
C5_OrderedNonZero ==
    (pc = "ready" /\ ret.op = "consolidate_output" /\ ret.status = "ok") =>
        LET rows == ret.coll.rows
            layout == StreamLayoutOf(ret.coll.kind)
        IN /\ \A i \in 1..Len(rows) : rows[i][Len(rows[i])] # 0
           /\ \A i \in 1..(Len(rows) - 1) :
                 \/ LiteralLess(rows[i][1], rows[i + 1][1], layout.key)
                 \/ /\ ret.coll.kind = "Map"
                    /\ rows[i][1] = rows[i + 1][1]
                    /\ LiteralLess(rows[i][2], rows[i + 1][2], layout.val)

\* A map came out with two values under one key.
C5_Witness ==
    /\ TookSink3
    /\ ret.coll.kind = "Map"
    /\ Len(ret.coll.rows) = 2
    /\ ret.coll.rows[1][1] = ret.coll.rows[2][1]

\* C6: an append_input, append_json_input, append_json_record or
\* append_csv_input on a declared source without an endpoint returns normally and
\* leaves the circuit, every buffer and every sink as they were.
C6_AbsentSourceNoOp ==
    [][ \A n \in Sources :
          ( /\ pc = "ready"
            /\ ret = NoCall
            /\ ~inputs[n].ep
            /\ ret'.op \in AppendOps
            /\ ret'.node = n )
          => ( /\ ret'.status = "ok"
               /\ UNCHANGED << outside, graph, pc, circuit, pending, mailbox, handles, joined,
                               rowsLeft, tick, obs, ub >> ) ]_vars

\* append_csv_input has returned from a call on the unused source 2, between an
\* append to source 1 and the tick.
C6_Witness ==
    /\ pc = "ready"
    /\ ret.op = "append_csv_input"
    /\ ret.node = 2
    /\ ret.status = "ok"
    /\ ~inputs[2].ep
    /\ pending[1] # EmptyBag

\* C7: consolidate_output on a declared sink without an endpoint returns the
\* empty collection of the sink's declared kind, before and after ticks, and
\* does not panic.
C7_UnreachableSinkEmpty ==
    ( /\ pc = "ready"
      /\ ret.op = "consolidate_output"
      /\ ret.node \in DOMAIN sink_nodes(graph)
      /\ ret.node \notin DOMAIN init_circuit(graph).outputs )
    => ( /\ ret.status = "ok"
         /\ ret.coll = StreamCollection(sink_nodes(graph)[ret.node].kind, <<>>) )

\* The unreachable map sink 4 after a tick: the empty map came back.
C7_Witness ==
    /\ pc = "ready"
    /\ runtime = "stepped"
    /\ ret.op = "consolidate_output"
    /\ ret.node = 4
    /\ ~outputs[4].ep
    /\ ret.coll = StreamCollection("Map", <<>>)

\* C8 as stated: once kill has freed the JIT memory no row is alive, the rows
\* pushed through a JsonSetHandle and not yet taken by a tick included.
C8_NoRowOutlivesJit ==
    jit = "freed" => \A n \in DOMAIN pending : pending[n] = EmptyBag

\* C9 as stated: once kill has returned, nothing obtained from the circuit is
\* used again: no call on the circuit, and no push or clear_input through a
\* JsonSetHandle or a clone of one.
C9_NothingUsableAfterKill ==
    pc = "dead" => ret.op \in {"kill", "none"}

\* C10: when all a tick received was pushed through JsonSetHandle values of
\* source 1, in whatever order the pushes of the clones landed, the set that
\* comes out is the sum of the pushes: each key once, with the sum of the
\* weights pushed for it, and no key whose weights do not cancel is missing.
C10_PushesSum ==
    ( /\ TookSink3
      /\ seen.pushes >= 1
      /\ seen.pushes = BagCardinality(seen.log)
      /\ seen.kept = seen.log )
    => ( /\ CollAmount(ret.coll) = Amount("Set", seen.log)
         /\ Len(ret.coll.rows) = Cardinality(Amount("Set", seen.log)) )

\* Two handles of source 1 are alive, two pushes with different keys landed in
\* one tick, and both keys came out.
C10_Witness ==
    /\ TookSink3
    /\ handles[1] = 2
    /\ seen.pushes = 2
    /\ BagCardinality(seen.log) = 2
    /\ seen.kept = seen.log
    /\ Len(ret.coll.rows) = 2

InputOps == AppendOps \cup {"json_input_set"}

\* C11: a call of append_input, append_json_input, append_json_record,
\* append_csv_input or json_input_set with a node that is no declared source,
\* and a call of consolidate_output with a node that is no declared sink,
\* panics, and nothing of the circuit, its buffers and its sinks has changed.
C11_UnknownNodePanics ==
    [][ ( /\ pc = "ready"
          /\ ret = NoCall
          /\ \/ ret'.op \in InputOps /\ ret'.node \notin DOMAIN source_nodes(graph)
             \/ ret'.op = "consolidate_output" /\ ret'.node \notin DOMAIN sink_nodes(graph) )
        => ( /\ ret'.status = "panic"
             /\ ret'.why = "unknown_node"
             /\ UNCHANGED << outside, graph, pc, circuit, pending, mailbox, handles, joined,
                             rowsLeft, tick, obs, ub >> ) ]_vars

\* json_input_set has panicked on the undeclared node 5 while rows are buffered
\* for source 1.
C11_Witness ==
    /\ pc = "ready"
    /\ ret.op = "json_input_set"
    /\ ret.node = 5
    /\ ret.status = "panic"
    /\ pending[1] # EmptyBag

\* C12 as stated: append_input with a collection of the other kind panics on
\* every declared source, and json_input_set panics on every map source, with
\* or without an endpoint.
C12_KindMismatchAlwaysPanics ==
    [][ \A n \in Sources :
          (pc = "ready" /\ ret = NoCall /\ ret'.node = n) =>
             /\ (ret'.op = "json_input_set" /\ inputs[n].layout.kind = "Map")
                   => ret'.status = "panic"
             /\ ret'.op = "append_input" =>
                   \A data \in Collections(rowsLeft) :
                      (data.kind # inputs[n].layout.kind /\ AppendInput(n, data))
                         => ret'.status = "panic" ]_vars

\* C12, amended: append_input with a collection of the other kind panics on
\* every declared source that has its endpoint (on one without, the call is the
\* no-op of every append), and json_input_set panics on every map source, with
\* or without an endpoint.
C12_KindMismatchPanics ==
    [][ \A n \in Sources :
          (pc = "ready" /\ ret = NoCall /\ ret'.node = n) =>
             /\ (ret'.op = "json_input_set" /\ inputs[n].layout.kind = "Map")
                   => (ret'.status = "panic" /\ ret'.why = "kind")
             /\ (ret'.op = "append_input" /\ inputs[n].ep) =>
                   \A data \in Collections(rowsLeft) :
                      (data.kind # inputs[n].layout.kind /\ AppendInput(n, data))
                         => (ret'.status = "panic" /\ ret'.why = "kind") ]_vars

\* append_input has panicked on the kind of the collection, on a map source
\* that has its endpoint.
C12_Witness ==
    /\ pc = "ready"
    /\ ret.op = "append_input"
    /\ ret.status = "panic"
    /\ ret.why = "kind"
    /\ inputs[ret.node].ep
    /\ inputs[ret.node].layout.kind = "Map"

\* C13 as stated: append_json_input and append_json_record never return
\* normally for a map source; the call fails as not implemented and pushes
\* nothing.
C13_MapJsonNeverAccepted ==
    [][ \A n \in Sources :
          ( /\ pc = "ready"
            /\ ret = NoCall
            /\ ret'.op \in {"append_json_input", "append_json_record"}
            /\ ret'.node = n
            /\ inputs[n].layout.kind = "Map" )
          => ( /\ ret'.status = "panic"
               /\ ret'.why = "todo"
               /\ UNCHANGED << pending, rowsLeft, tick >> ) ]_vars

\* C13, amended: on a map source that has its endpoint, append_json_input and
\* append_json_record fail as not implemented; on a map source without endpoint
\* they return normally, as the no-op of every append. Either way nothing is
\* pushed.
C13_MapJsonNotImplemented ==
    [][ \A n \in Sources :
          ( /\ pc = "ready"
            /\ ret = NoCall
            /\ ret'.op \in {"append_json_input", "append_json_record"}
            /\ ret'.node = n
            /\ inputs[n].layout.kind = "Map" )
          => ( /\ IF inputs[n].ep
                  THEN ret'.status = "panic" /\ ret'.why = "todo"
                  ELSE ret'.status = "ok" /\ ret'.why = "unused"
               /\ UNCHANGED << pending, rowsLeft, tick >> ) ]_vars

\* append_json_record has failed as not implemented on the map source 1 of a
\* circuit whose JSON deserializer is registered.
C13_Witness ==
    /\ pc = "ready"
    /\ ret.op = "append_json_record"
    /\ ret.node = 1
    /\ ret.status = "panic"
    /\ ret.why = "todo"
    /\ inputs[1].ep
    /\ inputs[1].layout.kind = "Map"
    /\ 1 \in json_deser_demands

\* C14: step returns Err when the runtime's step reported a failed worker and
\* Ok otherwise, and either way the circuit stays: the JIT memory is not freed,
\* the runtime is not killed, inputs, outputs and the demand tables are as they
\* were, and the circuit still takes calls.
C14_StepErrKeepsCircuit ==
    [][ (pc = "ready" /\ ret = NoCall /\ ret'.op = "step") =>
           /\ ret'.status \in {"ok", "err"}
           /\ (ret'.status = "err") = (ret'.why = "worker")
           /\ ret'.status = "ok" => (runtime' = "stepped" /\ obs' = tick)
           /\ pc' = "ready"
           /\ jit' = "live"
           /\ runtime' # "killed"
           /\ UNCHANGED << inputs, outputs, csv_demands, json_deser_demands >> ]_vars

\* step has returned Err after an earlier tick, with rows buffered for the
\* next one: the circuit is live and its endpoints are there.
C14_Witness ==
    /\ pc = "ready"
    /\ ret.op = "step"
    /\ ret.status = "err"
    /\ runtime = "stepped"
    /\ jit = "live"
    /\ inputs[1].ep
    /\ pending[1] # EmptyBag

\* The weights of the tuples of a bag of set tuples.
AddedWeights(before, after) == { t[2] : t \in BagToSet(after (-) before) }

\* C15: on a set source that has its endpoint, append_json_input and
\* append_csv_input either take every record of the call, as N rows of weight +1
\* added to what was buffered, or, when a record does not parse, fail and leave
\* what was buffered exactly as it was: none of the records before the bad one
\* is in the source.
C15_AllOrNothing ==
    [][ ( /\ pc = "ready"
          /\ ret = NoCall
          /\ ret'.node = 1
          /\ inputs[1].ep
          /\ inputs[1].layout.kind = "Set" )
        => /\ ret'.op = "append_json_input" =>
                \A json \in SeqsUpTo(JsonDocs, rowsLeft) :
                   AppendJsonInput(1, json) =>
                      IF \A i \in 1..Len(json) : ParseJson(json[i]).ok
                      THEN /\ ret'.status = "ok"
                           /\ BagCardinality(pending'[1]) = BagCardinality(pending[1]) + Len(json)
                           /\ pending[1] \sqsubseteq pending'[1]
                           /\ AddedWeights(pending[1], pending'[1]) \subseteq {1}
                      ELSE /\ ret'.status = "panic"
                           /\ pending' = pending
           /\ ret'.op = "append_csv_input" =>
                \A file \in CsvFiles(rowsLeft) :
                   AppendCsvInput(1, file) =>
                      IF file.exists /\ \A i \in 1..Len(file.records) : CsvReadable(file.records[i])
                      THEN /\ ret'.status = "ok"
                           /\ BagCardinality(pending'[1]) =
                                 BagCardinality(pending[1]) + Len(file.records)
                           /\ pending[1] \sqsubseteq pending'[1]
                           /\ AddedWeights(pending[1], pending'[1]) \subseteq {1}
                      ELSE /\ ret'.status = "panic"
                           /\ pending' = pending ]_vars

\* A stream with a malformed record has failed; the row an earlier
\* call appended is still buffered, and it is the only one.
C15_Witness ==
    /\ pc = "ready"
    /\ ret.op = "append_json_input"
    /\ ret.node = 1
    /\ ret.status = "panic"
    /\ ret.why = "parse"
    /\ rowsLeft = MaxTickRows - 1
    /\ BagCardinality(pending[1]) = 1

\* C16 as stated: an add_csv_deserialize or add_json_deserialize for a layout
\* that already has a mapping panics and does not register the new mapping: the
\* mapping a layout has never changes once it is there; and a call on one of
\* the two maps leaves the other alone.
C16_DemandsWriteOnce ==
    [][ /\ \A l \in DemandLayouts :
             /\ demands.csv[l] # None => demands'.csv[l] = demands.csv[l]
             /\ demands.json_deser[l] # None => demands'.json_deser[l] = demands.json_deser[l]
        /\ (ret = NoCall /\ ret'.op = "add_csv_deserialize") =>
             /\ demands'.json_deser = demands.json_deser
             /\ (ret'.status = "panic") = (demands.csv[ret'.node] # None)
        /\ (ret = NoCall /\ ret'.op = "add_json_deserialize") =>
             /\ demands'.csv = demands.csv
             /\ (ret'.status = "panic") = (demands.json_deser[ret'.node] # None) ]_vars

\* No Timestamp constant of the literal has anything beyond its whole
\* milliseconds.
WholeMillis(literal) ==
    \A c \in 1..Len(literal) :
        (literal[c].opt # None /\ literal[c].opt[1].ty = "Timestamp")
            => literal[c].opt[1].v.submilli = 0

\* The batch consolidate_output took was made by one entry of weight +1, and
\* the collection returned is that entry.
OneEntryReturned ==
    (TookSink3 /\ seen.kept = seen.log /\ BagCardinality(seen.log) = 1) =>
        \A e \in BagToSet(seen.log) :
            e[Len(e)] = 1 => ret.coll.rows = << e >>

\* C17 as stated: every well-formed literal comes back from
\* row_literal_from_row(row_from_literal(L)) as it went in, and one entry
\* (L, +1) appended to the identity pipeline comes out of consolidate_output
\* after the tick as the one entry (L, +1).
C17_RoundTrip ==
    /\ conv.at = "literal" => conv.back = conv.literal
    /\ OneEntryReturned

\* C17, amended: the same for every well-formed literal whose Timestamp
\* constants are whole milliseconds; a Timestamp with a part below one
\* millisecond comes back without that part.
C17_RoundTripWholeMillis ==
    /\ conv.at = "literal" =>
          IF WholeMillis(conv.literal) THEN conv.back = conv.literal
          ELSE conv.back # conv.literal /\ WholeMillis(conv.back)
    /\ OneEntryReturned

\* A literal of layout 3 with a null column, a non-null nullable column and a
\* Timestamp of one millisecond has come back as it went in, and the set
\* pipeline has returned the one entry (L, +1) it was given, L a null column.
C17_Witness ==
    /\ conv.at = "literal"
    /\ conv.layout = 3
    /\ conv.literal[1].opt[1].v = DateTime(1, 0)
    /\ conv.literal[2].opt = None
    /\ conv.literal[4].opt = Some(Const("Date", 1))
    /\ conv.row[2].null
    /\ conv.back = conv.literal
    /\ TookSink3
    /\ seen.log = SeqToBag(<< << << Nullable(None) >>, 1 >> >>)
    /\ ret.coll = StreamCollection("Set", << << << Nullable(None) >>, 1 >> >>)

\* The collection a sink of the layout returns for the constant of its graph.
ConstantCollection(layout) ==
    LET k == IF layout.key = 2 THEN << NonNull(Const("U32", 1)) >>
                               ELSE << Nullable(Some(Const("I32", 1))) >>
    IN IF layout.kind = "Set" THEN StreamCollection("Set", << << k, 1 >> >>)
       ELSE StreamCollection("Map", << << k, << NonNull(Const("U32", 1)) >>, 1 >> >>)

\* C18: a graph that produces a constant emits it on the first step: the first
\* consolidate_output on its sink after new and one step returns exactly the
\* constant collection, Set[(RowLiteral[NonNull(U32(1))], +1)] for the graph
\* without sources; and the collection the caller kept from consolidate_output
\* is the same collection at every step of kill and after it.
C18_ConstantStream ==
    [][ /\ (unread /\ ret'.op = "consolidate_output" /\ ret'.node = 4) =>
              /\ ret'.status = "ok"
              /\ ret'.coll = ConstantCollection(sink_nodes(graph)[4])
              /\ graph = ConstantStream =>
                    ret'.coll = StreamCollection("Set", << << << NonNull(Const("U32", 1)) >>, 1 >> >>)
        /\ (runtime = "fresh" /\ ret'.op = "step" /\ ret'.status = "ok"
                /\ graph.sink4 = "const") => unread'
        /\ pc' \in {"kill_runtime_done", "kill_inputs_dropped", "kill_outputs_dropped", "dead"}
              => held' = held
      ]_vars

\* The circuit of constant_stream.json is dead, and the caller holds the
\* constant set it read after the one step.
C18_Witness ==
    /\ graph = ConstantStream
    /\ pc = "dead"
    /\ jit = "freed"
    /\ ret.op = "kill"
    /\ held = StreamCollection("Set", << << << NonNull(Const("U32", 1)) >>, 1 >> >>)

\* C19 as stated: update_program applies a change only when the stored version
\* is the guard it was given at the time the change is applied, so that of the
\* concurrent calls with one guard that change the code at most one commits;
\* a call whose guard is not the stored version returns OutdatedProgramVersion
\* with the latest version and leaves the row as it is.
C19_GuardedUpdate ==
    [][ \A c \in Callers :
          /\ (txn[c].at = "updated" /\ txn'[c].at = "returned" /\ txn[c].guard # None)
                => program[1].version = txn[c].guard[1]
          /\ (txn[c].at = "idle" /\ txn'[c].result = "OutdatedProgramVersion")
                => /\ program' = program
                   /\ txn'[c].version = program[1].version
                   /\ txn'[c].guard[1] # program[1].version
      ]_vars

\* C20 as stated: the version is 1 after new_program, goes up by one with every
\* commit that changes the stored code and with no other, and never goes down:
\* it is 1 plus the number of committed code modifications.
C20_VersionCountsCodeChanges ==
    program # None => program[1].version = 1 + mods

\* C21 as stated: when a committed update_program changes the code of the
\* row (it was given a code, and the code it leaves is not the code it wrote
\* over), the row it leaves has status 'none', no error and no schema,
\* whatever status and schema the call was given.
C21_CodeChangeResets ==
    [][ \A c \in Callers :
          (txn[c].at = "updated" /\ txn'[c].result = "Ok"
              /\ txn[c].program_code # None
              /\ program'[1].code # program[1].code)
          => /\ program'[1].status = "none"
             /\ program'[1].error = None
             /\ program'[1].schema = None
      ]_vars

\* C22 as stated: in every function of some_function1 .. some_function4, the
\* argument at position i is an Option exactly when the i-th character of the
\* suffix is N; the function returns None exactly when an argument at an
\* N position is None, and otherwise Some of the base function applied to the
\* unwrapped arguments.
C22_SuffixSaysNullable ==
    sql.fn = "some_function" =>
        LET f == sql.variant
            marked == { i \in 1..Len(f.suffix) : f.suffix[i] = "N" }
        IN /\ \A i \in 1..Len(f.suffix) : f.optional[i] = (i \in marked)
           /\ (sql.result = None) = (\E i \in marked : sql.args[i] = None)
           /\ sql.result # None =>
                 sql.result = Some(BaseFunction([i \in 1..Len(sql.args) |-> sql.args[i][1]]))

\* C23: kill goes one way: the runtime is killed while the maps and the JIT
\* memory are as they were, the inputs map is dropped only after that, the
\* outputs map only after the inputs map, and the JIT memory is freed only
\* when both are gone; it is freed whether the workers joined or not, and what
\* kill returns is what the join returned.
C23_KillOrder ==
    [][ /\ (runtime # "killed" /\ runtime' = "killed")
              => (inputs' = inputs /\ outputs' = outputs /\ jit' = "live" /\ jit = "live")
        /\ (pc # "new" /\ inputs' # inputs)
              => (runtime = "killed" /\ inputs' = <<>> /\ outputs' = outputs /\ jit' = "live")
        /\ (pc # "new" /\ outputs' # outputs)
              => (runtime = "killed" /\ pc = "kill_inputs_dropped" /\ outputs' = <<>>
                    /\ jit' = "live")
        /\ (jit = "live" /\ jit' = "freed")
              => (runtime = "killed" /\ pc = "kill_outputs_dropped" /\ inputs = <<>>
                    /\ outputs = <<>>)
        /\ (pc # "dead" /\ pc' = "dead")
              => (jit' = "freed" /\ ret'.op = "kill" /\ ret'.status = joined
                    /\ joined \in {"ok", "err"})
      ]_vars

\* kill has returned the join error of the runtime, and the JIT memory is freed.
C23_Witness ==
    /\ pc = "dead"
    /\ joined = "err"
    /\ ret.op = "kill"
    /\ ret.status = "err"
    /\ runtime = "killed"
    /\ inputs = <<>>
    /\ outputs = <<>>
    /\ jit = "freed"

\* C24 as stated: when a mapping of the demands declares a layout that is not
\* the LayoutId it is registered under, DbspCircuit::new fails and no circuit
\* exists, in every build.
C24_DemandMismatchFatal ==
    (\E layout \in graph.demands : layout # graph.mappings_layout)
        => pc \in {"new", "failed"}

\* C25: the literal row_literal_from_row returns has one entry for each column
\* of the layout, in the order of the columns: for a nullable column
\* Nullable(None) when the null bit is set and Nullable(Some(c)) otherwise, for
\* any other column NonNull(c), c being the constant in the column; whatever
\* the bytes of a column with the null bit set are, they are not in the
\* literal.
C25_NullDiscipline ==
    conv.at = "literal" =>
        LET layout == RowLayoutOf(conv.layout)
        IN /\ Len(conv.back) = Len(layout)
           /\ \A c \in 1..Len(layout) :
                 IF layout[c].nullable
                 THEN conv.back[c] =
                        Nullable(IF conv.row[c].null THEN None
                                 ELSE Some(constant_from_column(c, conv.row, layout)))
                 ELSE conv.back[c] = NonNull(constant_from_column(c, conv.row, layout))
           /\ \A c \in 1..Len(layout) :
                 conv.row[c].null => conv.back[c].opt = None

\* A row of layout 3 with one column null, whose bytes are not the ones
\* row_from_literal left, and one nullable column not null, has become a
\* literal.
C25_Witness ==
    /\ conv.at = "literal"
    /\ conv.layout = 3
    /\ conv.row[2].null
    /\ conv.row[2].payload # UninitPayload
    /\ ~conv.row[4].null
    /\ conv.back[2] = Nullable(None)
    /\ conv.back[4] = Nullable(Some(Const("Date", 1)))
    /\ conv.back[3] = NonNull(Const("Bool", TRUE))

\* C26: a call made for tenant t leaves a row of another tenant as it is and
\* returns nothing of it: get_program_by_id, update_program and delete_program
\* return UnknownProgram, get_program_by_name UnknownProgramName, list_programs
\* no row; and no update_program commits over a row that is not its tenant's.
C26_TenantIsolation ==
    [][ /\ (reply' # reply /\ program # None /\ program[1].tenant_id # reply'.tenant_id)
              => /\ program' = program
                 /\ reply'.rows = <<>>
                 /\ reply'.op \in {"get_program_by_id", "delete_program"}
                       => reply'.result = "UnknownProgram"
                 /\ reply'.op = "get_program_by_name"
                       => reply'.result = "UnknownProgramName"
        /\ \A c \in Callers :
              /\ (txn[c].at = "idle" /\ txn'[c].at # "idle" /\ program # None
                    /\ program[1].tenant_id # txn'[c].tenant_id)
                    => (txn'[c].result = "UnknownProgram" /\ program' = program)
              /\ (txn[c].at = "selected" /\ txn'[c].at # "selected" /\ program # None
                    /\ program[1].tenant_id # txn[c].tenant_id)
                    => (txn'[c].result = "UnknownProgram" /\ program' = program)
              /\ (txn[c].at = "updated" /\ txn'[c].at = "returned")
                    => (program[1].tenant_id = txn[c].tenant_id
                          /\ program'[1].tenant_id = program[1].tenant_id)
        /\ (program # None /\ program' = None) => reply'.tenant_id = program[1].tenant_id
      ]_vars

\* Tenant t2 has asked to delete the program of tenant t1, which is still
\* there, after an update of t2 on it was answered UnknownProgram.
C26_Witness ==
    /\ program # None
    /\ program[1].tenant_id = "t1"
    /\ reply.op = "delete_program"
    /\ reply.tenant_id = "t2"
    /\ reply.result = "UnknownProgram"
    /\ txn[1].at = "returned"
    /\ txn[1].tenant_id = "t2"
    /\ txn[1].result = "UnknownProgram"

\* The eight names of the status column.
KnownStatusStrings ==
    { "none", "success", "pending", "compiling_sql", "compiling_rust", "sql_error",
      "rust_error", "system_error" }

\* C27: from_columns applied to the pair to_columns made of a status s returns
\* Ok(s), for every s; applied to a status text that is none of the eight
\* names it returns Err(invalid_status), and to one of the eight names a
\* status.
C27_ColumnsRoundTrip ==
    encoding.at = "status" =>
        /\ encoding.status # <<>> =>
              (encoding.back[1].ok /\ encoding.back[1].status = encoding.status[1])
        /\ encoding.back[1].ok = (encoding.pair[1][1] \in KnownStatusStrings)
        /\ ~encoding.back[1].ok => encoding.back[1].status.tag = "invalid_status"

\* A SqlError with a message has come back from the two columns as itself.
C27_Witness ==
    /\ encoding.at = "status"
    /\ encoding.status = << SqlError(<< "m" >>) >>
    /\ encoding.pair = << Some("sql_error"), Some("[\"m\"]") >>
    /\ encoding.back = << [ok |-> TRUE, status |-> SqlError(<< "m" >>)] >>

\* C28 as stated: every integer division helper returns for every input; it
\* returns None exactly when the divisor is zero or an operand is null, and
\* otherwise Some of left / right, MIN and -1 among the operands.
C28_DivisionTotal ==
    sql.fn = "div" =>
        /\ sql.outcome = "returned"
        /\ (sql.result = None)
              = (sql.args[1] = None \/ sql.args[2] = None \/ sql.args[2] = Some(0))
        /\ sql.result # None => sql.result = Some(TruncDiv(sql.args[1][1], sql.args[2][1]))

\* `weight` clones of the value.
Clones(value, weight) == [i \in 1..weight |-> value]

\* C29 as stated: weighted_push returns for every weight, and on return the
\* vector is what it was with exactly `weight` clones of the value after it:
\* nothing after it for the weight zero, and nothing for a negative weight.
C29_WeightedPush ==
    sql.fn = "weighted_push" =>
        LET vec == sql.args[1]
            value == sql.args[2][1]
            weight == sql.args[3][1]
        IN /\ sql.outcome = "returned"
           /\ weight >= 0 => sql.result = vec \o Clones(value, weight)
           /\ weight < 0 => sql.result = vec

\* OR and AND of SQL's three-valued logic, NULL being None.
SqlOr(l, r) ==
    IF l = Some(TRUE) \/ r = Some(TRUE) THEN Some(TRUE)
    ELSE IF l = Some(FALSE) /\ r = Some(FALSE) THEN Some(FALSE)
    ELSE None
SqlAnd(l, r) ==
    IF l = Some(FALSE) \/ r = Some(FALSE) THEN Some(FALSE)
    ELSE IF l = Some(TRUE) /\ r = Some(TRUE) THEN Some(TRUE)
    ELSE None

\* C30: or_bN_bN is Some(true) if either argument is Some(true), Some(false)
\* if both are Some(false), None otherwise; and_bN_bN is Some(false) if
\* either argument is Some(false), Some(true) if both are Some(true), None
\* otherwise; both give the same for their arguments swapped; and each mixed
\* variant returns what the NN variant returns for the same arguments, the
\* one that is not nullable wrapped in Some.
C30_ThreeValuedLogic ==
    sql.fn = "bool" =>
        LET op == sql.variant[1]
            l == sql.args[1]
            r == sql.args[2]
        IN /\ sql.outcome = "returned"
           /\ op = "or" => (sql.result = SqlOr(l, r) /\ sql.result = or_bN_bN(l, r)
                              /\ sql.result = or_bN_bN(r, l))
           /\ op = "and" => (sql.result = SqlAnd(l, r) /\ sql.result = and_bN_bN(l, r)
                               /\ sql.result = and_bN_bN(r, l))

\* or_bN_b has been called with NULL and true, and has returned Some(true).
C30_Witness ==
    /\ sql.fn = "bool"
    /\ sql.variant = << "or", << "N", "_" >> >>
    /\ sql.args = << None, Some(TRUE) >>
    /\ sql.result = Some(TRUE)

====
